---- MODULE Spec2Model ----
(***************************************************************************)
(* Bridge transaction orchestrator: the aggregator                         *)
(* (bridge_logic/bridge_aggregator.py), the three provider adapters        *)
(* (jumper_bridge.py, relay_bridge.py, stargate_bridge.py), the scheduler  *)
(* (bridge_service.py) and the wallet signing port                         *)
(* (wallet_management/wallet_service.py, transaction_manager.py).          *)
(*                                                                         *)
(* The module holds several specifications over one set of variables; a    *)
(* specification moves its own group of variables and leaves the others at *)
(* their initial value:                                                    *)
(*   Spec         one execute / provider-adapter run after the other       *)
(*   SpecNonce    two threads signing through the wallet signing port      *)
(*   SpecSched    the scheduler thread and schedule_random_transactions    *)
(*   SpecSelect   select_random_transaction applied to bounded inputs      *)
(*   SpecService  select_random_service applied to bounded inputs          *)
(*   SpecTimes    generate_random_transaction_times on bounded draws       *)
(***************************************************************************)
EXTENDS Integers, Sequences, FiniteSets, TLC

VARIABLES
    \* ---- Spec: execute_random_bridge and the adapter runs
    pc,            \* position of the running execute / execute_bridge
    run,           \* its local variables
    calls,         \* calls it has made so far (provider and signing port)
    history,       \* BridgeAggregator.transaction_history
    nextId,        \* number of the next run
    private_key,   \* what get_private_key gives for the wallet: its key, or NoKey
    \* ---- SpecNonce: TransactionManager.approve_token / send_transaction
    sign_pc,       \* per thread: position inside the signing operation
    sign_op,       \* per thread: the operation's arguments and locals
    tx_count,      \* per wallet and chain: eth.get_transaction_count
    broadcast,     \* raw transactions handed to the node
    \* ---- SpecSched: BridgeService scheduling and the schedule library
    jobs,          \* schedule.jobs of the default scheduler
    scheduled_transactions, \* BridgeService.scheduled_transactions
    runnable,      \* jobs the running run_pending still has to run
    current,       \* jobs whose execute_transaction is in progress
    ended,         \* the firing that returned last and how it ended
    fired,         \* firings so far
    superseded,    \* jobs cancelled by a schedule call that has returned
    nextJob,       \* number of the next job object
    requested,     \* per wallet: num_tx of the last schedule call
    clock,         \* datetime.now() as the schedule library reads it
    loop,          \* run_scheduler's while loop: "running" or "stopped"
    \* ---- SpecNotify: BridgeService.notify
    notification_callbacks, \* BridgeService.notification_callbacks
    notify_pc,     \* position of the running notify
    notify_args,   \* its arguments (message, transaction_data)
    notify_i,      \* index of the callback the for loop is at
    delivered,     \* calls of callbacks made by the running notify
    callbacks,     \* NotificationService.callbacks
    bot_pc,        \* TelegramBot.start: "created", "polling" or "returned"
    \* ---- SpecWallets: WalletManager
    wallets,       \* WalletManager.wallets: address -> wallet_info
    store_calls,   \* the calls made on the store so far, with what they returned
    \* ---- SpecSelect
    sel_chains,    \* available_chains
    sel_tokens,    \* available_tokens
    sel_result,    \* what select_random_transaction returned
    \* ---- SpecService
    svc_args,      \* (from_chain, to_chain, token_symbol)
    svc_result,    \* what select_random_service returned
    \* ---- SpecTimes
    gen_num,       \* the argument num_transactions
    gen_now,       \* datetime.now() at the call
    gen_draws,     \* the (hour, minute, second) draws of random.randint
    gen_result     \* what generate_random_transaction_times returned

runVars   == <<pc, run, calls, history, nextId, private_key>>
nonceVars == <<sign_pc, sign_op, tx_count, broadcast>>
schedVars == <<jobs, scheduled_transactions, runnable, current, ended, fired,
               superseded, nextJob, requested, clock, loop>>
selVars   == <<sel_chains, sel_tokens, sel_result>>
svcVars   == <<svc_args, svc_result>>
timeVars  == <<gen_num, gen_now, gen_draws, gen_result>>
notifyVars == <<notification_callbacks, notify_pc, notify_args, notify_i,
                delivered, callbacks, bot_pc>>
walletVars == <<wallets, store_calls>>
vars      == <<runVars, nonceVars, schedVars, selVars, svcVars, timeVars,
               notifyVars, walletVars>>

-----------------------------------------------------------------------------
(* Values shared by the specifications *)

\* Python's None; results are records, so that None compares with them.
None == [tag |-> "None"]

\* A call that has not been made yet.
NotCalled == [tag |-> "NotCalled"]

Range(s) == {s[i] : i \in 1..Len(s)}

\* config.SUPPORTED_CHAINS
SUPPORTED_CHAINS ==
    <<"ethereum", "polygon", "arbitrum", "optimism", "avalanche",
      "binance-smart-chain", "base">>

\* The keys of transaction_manager.RPC_URLS: the chains the signing port knows.
RPC_URLS ==
    {"ethereum", "polygon", "arbitrum", "optimism", "avalanche",
     "binance-smart-chain", "base"}

\* The keys of stargate_bridge.STARGATE_CHAINS.
STARGATE_CHAINS ==
    {"ethereum", "bsc", "avalanche", "polygon", "arbitrum", "optimism", "base"}

\* stargate_bridge.STARGATE_POOLS: token symbol -> chain -> pool id.
STARGATE_POOLS ==
    [USDC |-> [c \in STARGATE_CHAINS |-> 1],
     USDT |-> [c \in STARGATE_CHAINS |-> 2],
     ETH  |-> [c \in STARGATE_CHAINS |->
                  IF c \in {"bsc", "avalanche", "polygon"} THEN 0 ELSE 13]]

-----------------------------------------------------------------------------
(* BridgeAggregator.select_random_service *)

\* A plausible slip: the destination chain is not checked.
stargate_supported_src_only(from_chain, to_chain, token_symbol) ==
    /\ from_chain \in STARGATE_CHAINS
    /\ token_symbol \in DOMAIN STARGATE_POOLS
    /\ from_chain \in DOMAIN STARGATE_POOLS[token_symbol]

\* The condition under which "stargate" is appended to supported_services.
stargate_supported(from_chain, to_chain, token_symbol) ==
    /\ from_chain \in STARGATE_CHAINS
    /\ to_chain \in STARGATE_CHAINS
    /\ token_symbol \in DOMAIN STARGATE_POOLS
    /\ from_chain \in DOMAIN STARGATE_POOLS[token_symbol]
    /\ to_chain \in DOMAIN STARGATE_POOLS[token_symbol]

\* The services random.choice(supported_services) can return.
select_random_service(from_chain, to_chain, token_symbol) ==
    {"jumper", "relay"} \cup
    (IF stargate_supported(from_chain, to_chain, token_symbol)
     THEN {"stargate"} ELSE {})

\* StargateBridgeService.get_chain_id
get_chain_id(chain_name) ==
    IF chain_name \in STARGATE_CHAINS THEN [tag |-> "id", chain |-> chain_name]
    ELSE None

\* StargateBridgeService.get_pool_id
get_pool_id(token_symbol, chain_name) ==
    IF token_symbol \in DOMAIN STARGATE_POOLS
       /\ chain_name \in DOMAIN STARGATE_POOLS[token_symbol]
    THEN [tag |-> "pool", id |-> STARGATE_POOLS[token_symbol][chain_name]]
    ELSE None

-----------------------------------------------------------------------------
(* BridgeAggregator.select_random_transaction *)

min_percentage == 10
max_percentage == 90

\* A plausible slip: the percentage is drawn from 0..100.
PercentagesWide == {0, min_percentage, max_percentage, 100}

\* The draws of random.randint(min_percentage, max_percentage) that are
\* explored: both ends of the range and its middle.
Percentages ==
    {min_percentage, (min_percentage + max_percentage) \div 2, max_percentage}

\* amount = token_balance * percentage / 100 is kept exact, as the numerator
\* token_balance * percentage over this denominator.
AmountDen == 100

\* valid_chains: the chains of the list that have a non-empty token mapping.
valid_chains(available_chains, available_tokens) ==
    SelectSeq(available_chains,
              LAMBDA c : c \in DOMAIN available_tokens
                         /\ DOMAIN available_tokens[c] # {})

\* A plausible slip: the source chain is left among the destinations.
other_chains_unfiltered(valid, from_chain) == valid

\* other_chains = [chain for chain in valid_chains if chain != from_chain]
other_chains(valid, from_chain) ==
    SelectSeq(valid, LAMBDA c : c # from_chain)

\* The values select_random_transaction can return on these arguments.
select_random_transaction(available_chains, available_tokens) ==
    LET valid == valid_chains(available_chains, available_tokens) IN
    IF valid = <<>> THEN {None}
    ELSE UNION {
        LET on_chain == available_tokens[from_chain]
            others   == other_chains(valid, from_chain)
        IN  UNION {
              IF on_chain[token_symbol].balance <= 0 THEN {None}
              ELSE IF others = <<>> THEN {None}
              ELSE {[tag           |-> "transaction",
                     from_chain    |-> from_chain,
                     to_chain      |-> to_chain,
                     token_symbol  |-> token_symbol,
                     token_address |-> on_chain[token_symbol].address,
                     percentage    |-> percentage,
                     amount_num    |-> on_chain[token_symbol].balance * percentage]
                    : to_chain \in Range(others), percentage \in Percentages}
              : token_symbol \in DOMAIN on_chain}
        : from_chain \in Range(valid)}

-----------------------------------------------------------------------------
(* BridgeAggregator.generate_random_transaction_times *)

TRANSACTIONS_PER_DAY == 2
start_hour == 8
end_hour == 22

\* Instants are counted in ticks from today's midnight; datetime.now() can
\* fall between two whole seconds, the drawn times cannot.
TicksPerSecond == 2

Day == 86400 * TicksPerSecond

\* today.replace(hour=h, minute=m, second=s)
ClockTime(h, m, s) == (h * 3600 + m * 60 + s) * TicksPerSecond

\* The draws that are explored: both ends and the middle of the hour range,
\* both ends of the minute and of the second range.
RandomHours   == {start_hour, (start_hour + end_hour) \div 2, end_hour}
RandomMinutes == {0, 59}
RandomSeconds == {0, 59}
Draws == RandomHours \X RandomMinutes \X RandomSeconds

\* A plausible slip: every drawn time is put off to tomorrow.
tx_time_tomorrow(now, draw) == ClockTime(draw[1], draw[2], draw[3]) + Day

\* A plausible slip: a drawn time that is already past stays on today.
tx_time_today(now, draw) == ClockTime(draw[1], draw[2], draw[3])

\* One iteration of the loop: the drawn time, put off to tomorrow when it is
\* already in the past.
tx_time(now, draw) ==
    LET t == ClockTime(draw[1], draw[2], draw[3]) IN
    IF t < now THEN t + Day ELSE t

\* A plausible slip: the list is returned in drawing order.
sort_times_missing(times) == times

\* transaction_times.sort()
sort_times(times) == SortSeq(times, LAMBDA a, b : a < b)

generate_random_transaction_times(now, draws) ==
    sort_times([i \in 1..Len(draws) |-> tx_time(now, draws[i])])

\* num_tx = num_transactions if num_transactions is not None else TRANSACTIONS_PER_DAY
num_tx_of(num_transactions) ==
    IF num_transactions = None THEN TRANSACTIONS_PER_DAY ELSE num_transactions.n

-----------------------------------------------------------------------------
(* Initial values of the groups of variables *)

RunIdle ==
    /\ pc = "idle"
    /\ run = None
    /\ calls = <<>>
    /\ history = <<>>
    /\ nextId = 1
    /\ private_key = "key1"

NonceIdle ==
    /\ sign_pc = <<>>
    /\ sign_op = <<>>
    /\ tx_count = <<>>
    /\ broadcast = {}

SchedIdle ==
    /\ jobs = <<>>
    /\ scheduled_transactions = <<>>
    /\ runnable = <<>>
    /\ current = {}
    /\ ended = None
    /\ fired = {}
    /\ superseded = {}
    /\ nextJob = 1
    /\ requested = <<>>
    /\ clock = 0
    /\ loop = "running"

NotifyIdle ==
    /\ notification_callbacks = <<>>
    /\ notify_pc = "idle"
    /\ notify_args = None
    /\ notify_i = 0
    /\ delivered = <<>>
    /\ callbacks = <<>>
    /\ bot_pc = "created"

WalletIdle ==
    /\ wallets = <<>>
    /\ store_calls = <<>>

SelIdle ==
    /\ sel_chains = <<>>
    /\ sel_tokens = <<>>
    /\ sel_result = NotCalled

SvcIdle ==
    /\ svc_args = <<>>
    /\ svc_result = NotCalled

TimeIdle ==
    /\ gen_num = None
    /\ gen_now = 0
    /\ gen_draws = <<>>
    /\ gen_result = NotCalled

-----------------------------------------------------------------------------
(* SpecSelect: select_random_transaction on every bounded input *)

MaxChainList == 2

SelChains == {"ethereum", "polygon", "arbitrum"}
SelTokens == {"ETH", "USDC"}
BalanceValues == {0, 100}

\* The placeholder execute_random_bridge gives every token.
PlaceholderAddress == [tag |-> "address", text |-> "0x..."]

TokenMaps ==
    UNION {[S -> [address : {PlaceholderAddress}, balance : BalanceValues]]
           : S \in SUBSET SelTokens}

AvailableTokens == UNION {[C -> TokenMaps] : C \in SUBSET SelChains}

ChainLists == UNION {[1..n -> SelChains] : n \in 0..MaxChainList}

SelectInit ==
    /\ sel_chains \in ChainLists
    /\ sel_tokens \in AvailableTokens
    /\ sel_result = NotCalled
    /\ RunIdle /\ NonceIdle /\ SchedIdle /\ SvcIdle /\ TimeIdle /\ NotifyIdle /\ WalletIdle

SelectRandomTransaction ==
    /\ sel_result = NotCalled
    /\ sel_result' \in select_random_transaction(sel_chains, sel_tokens)
    /\ UNCHANGED <<sel_chains, sel_tokens>>
    /\ UNCHANGED <<runVars, nonceVars, schedVars, svcVars, timeVars, notifyVars,
                 walletVars>>

SelectNext == SelectRandomTransaction

SpecSelect == SelectInit /\ [][SelectNext]_vars

\* C7: whenever select_random_transaction returns a transfer, its source
\* chain and its destination chain are different.
C7_SourceDiffersFromDestination ==
    sel_result.tag = "transaction" =>
        sel_result.from_chain # sel_result.to_chain

\* A transfer was returned from a list that names two different chains.
C7_Witness ==
    /\ sel_result.tag = "transaction"
    /\ Len(sel_chains) = 2
    /\ sel_chains[1] # sel_chains[2]

\* C8: whenever select_random_transaction returns a transfer, its amount is
\* p% of the balance of the selected token on the source chain for an integer
\* p with 10 <= p <= 90; so it is positive and at most that balance.
C8_AmountIsPercentageOfBalance ==
    sel_result.tag = "transaction" =>
        LET balance ==
                sel_tokens[sel_result.from_chain][sel_result.token_symbol].balance
        IN  /\ \E p \in min_percentage..max_percentage :
                   sel_result.amount_num = balance * p
            /\ sel_result.amount_num > 0
            /\ sel_result.amount_num <= balance * AmountDen

\* A transfer of exactly 90% of a balance of 100 was returned.
C8_Witness ==
    /\ sel_result.tag = "transaction"
    /\ sel_result.percentage = max_percentage
    /\ sel_result.amount_num = 100 * max_percentage

\* The wallet holds USDC: 100 on the first chain of the list and no positive
\* balance anywhere else; the list names two different chains.
one_token_on_chain_x ==
    /\ Len(sel_chains) = 2
    /\ sel_chains[1] # sel_chains[2]
    /\ sel_chains[1] \in DOMAIN sel_tokens
    /\ DOMAIN sel_tokens[sel_chains[1]] = {"USDC"}
    /\ sel_tokens[sel_chains[1]]["USDC"].balance = 100
    /\ \A c \in DOMAIN sel_tokens \ {sel_chains[1]} :
          \A t \in DOMAIN sel_tokens[c] : sel_tokens[c][t].balance = 0

\* C18: with USDC: 100 on chain X only and the chains [X, Y],
\* select_random_transaction returns the transfer of USDC from X to Y with an
\* amount between 10 and 90.
C18_ScenarioSelectsXToY ==
    (one_token_on_chain_x /\ sel_result # NotCalled) =>
        /\ sel_result.tag = "transaction"
        /\ sel_result.from_chain = sel_chains[1]
        /\ sel_result.to_chain = sel_chains[2]
        /\ sel_result.token_symbol = "USDC"
        /\ sel_result.amount_num >= 10 * AmountDen
        /\ sel_result.amount_num <= 90 * AmountDen

\* The eligible chains: the chains of the list on which some token has a
\* positive balance.
eligible_chains ==
    {c \in Range(sel_chains) \cap DOMAIN sel_tokens :
        \E t \in DOMAIN sel_tokens[c] : sel_tokens[c][t].balance > 0}

\* C28: select_random_transaction fails only when no chain is eligible or
\* when the source is the only eligible chain; whenever at least two chains
\* each hold a token with a positive balance it returns a transfer.
C28_FailsOnlyWithoutEligibleChains ==
    (sel_result # NotCalled /\ Cardinality(eligible_chains) >= 2) =>
        sel_result.tag = "transaction"

\* C29: the source chain and the destination chain of a returned transfer
\* are both eligible chains.
C29_TransferBetweenEligibleChains ==
    sel_result.tag = "transaction" =>
        /\ sel_result.from_chain \in eligible_chains
        /\ sel_result.to_chain \in eligible_chains

-----------------------------------------------------------------------------
(* SpecService: select_random_service on every bounded input *)

SvcChains == Range(SUPPORTED_CHAINS) \cup STARGATE_CHAINS
SvcTokens == {"USDC", "USDT", "ETH", "DAI", "WETH", "BNB", "AVAX"}

ServiceInit ==
    /\ svc_args \in SvcChains \X SvcChains \X SvcTokens
    /\ svc_result = NotCalled
    /\ RunIdle /\ NonceIdle /\ SchedIdle /\ SelIdle /\ TimeIdle /\ NotifyIdle /\ WalletIdle

SelectRandomService ==
    /\ svc_result = NotCalled
    /\ \E name \in select_random_service(svc_args[1], svc_args[2], svc_args[3]) :
           svc_result' = [tag |-> "service", name |-> name]
    /\ UNCHANGED svc_args
    /\ UNCHANGED <<runVars, nonceVars, schedVars, selVars, timeVars, notifyVars,
                 walletVars>>

ServiceNext == SelectRandomService

SpecService == ServiceInit /\ [][ServiceNext]_vars

\* C9: select_random_service returns "stargate" only when the source and the
\* destination chain are Stargate chains and the Stargate adapter finds a
\* pool of the token on both of them.
C9_StargateOnlyWithRoute ==
    (svc_result.tag = "service" /\ svc_result.name = "stargate") =>
        /\ svc_args[1] \in STARGATE_CHAINS
        /\ get_chain_id(svc_args[2]) # None
        /\ get_pool_id(svc_args[3], svc_args[1]) # None
        /\ get_pool_id(svc_args[3], svc_args[2]) # None

\* "stargate" was returned for a route between two different chains.
C9_Witness ==
    /\ svc_result.tag = "service"
    /\ svc_result.name = "stargate"
    /\ svc_args[1] # svc_args[2]

-----------------------------------------------------------------------------
(* SpecTimes: generate_random_transaction_times on bounded draws *)

MaxCount == 2

\* Generation times that are explored: midnight, around the start of the
\* window, inside it, around its end, and the last instant of the day.
Nows ==
    {ClockTime(0, 0, 0),
     ClockTime(start_hour, 0, 0),
     ClockTime(start_hour, 0, 0) + 1,
     ClockTime((start_hour + end_hour) \div 2, 0, 59),
     ClockTime(end_hour, 59, 59),
     ClockTime(end_hour, 59, 59) + 1,
     ClockTime(23, 59, 59) + 1}

NumArguments == {None} \cup {[tag |-> "int", n |-> n] : n \in 0..MaxCount}

TimesInit ==
    /\ gen_num \in NumArguments
    /\ gen_now \in Nows
    /\ gen_draws \in [1..num_tx_of(gen_num) -> Draws]
    /\ gen_result = NotCalled
    /\ RunIdle /\ NonceIdle /\ SchedIdle /\ SelIdle /\ SvcIdle /\ NotifyIdle /\ WalletIdle

GenerateRandomTransactionTimes ==
    /\ gen_result = NotCalled
    /\ gen_result' = [tag   |-> "times",
                      times |-> generate_random_transaction_times(gen_now, gen_draws)]
    /\ UNCHANGED <<gen_num, gen_now, gen_draws>>
    /\ UNCHANGED <<runVars, nonceVars, schedVars, selVars, svcVars, notifyVars,
                 walletVars>>

TimesNext == GenerateRandomTransactionTimes

SpecTimes == TimesInit /\ [][TimesNext]_vars

\* C10: for a count N >= 0 the generated list has exactly N elements and is
\* sorted in non-decreasing order.
C10_LengthAndSorted ==
    (gen_result.tag = "times" /\ gen_num # None) =>
        /\ Len(gen_result.times) = gen_num.n
        /\ \A i, j \in 1..Len(gen_result.times) :
               i < j => gen_result.times[i] <= gen_result.times[j]

\* Two times were generated whose drawing order is not their time order.
C10_Witness ==
    /\ gen_result.tag = "times"
    /\ gen_num # None
    /\ gen_num.n = 2
    /\ tx_time(gen_now, gen_draws[1]) > tx_time(gen_now, gen_draws[2])

\* The clock time of draw i of the generation, on today.
drawn_today(i) == ClockTime(gen_draws[i][1], gen_draws[i][2], gen_draws[i][3])

\* C11: every drawn time that is already past at the generation time is
\* replaced by the same clock time of the next day, which is strictly later
\* than the generation time.
C11_PastTimesGoToNextDay ==
    gen_result.tag = "times" =>
        \A i \in DOMAIN gen_draws :
            drawn_today(i) < gen_now =>
                /\ drawn_today(i) \notin Range(gen_result.times)
                /\ drawn_today(i) + Day \in Range(gen_result.times)
                /\ (drawn_today(i) + Day) % Day = drawn_today(i)
                /\ drawn_today(i) + Day > gen_now

\* A generation in which one drawn time was past and another was not.
C11_Witness ==
    /\ gen_result.tag = "times"
    /\ \E i, j \in DOMAIN gen_draws :
          drawn_today(i) < gen_now /\ drawn_today(j) >= gen_now

\* C34: every returned time lies between the generation time (included) and
\* the same instant of the next day (excluded).
C34_WithinNextDay ==
    gen_result.tag = "times" =>
        \A i \in DOMAIN gen_result.times :
            /\ gen_now <= gen_result.times[i]
            /\ gen_result.times[i] < gen_now + Day

\* A generation in the middle of the day returned a time of today and a time
\* of tomorrow.
C34_Witness ==
    /\ gen_result.tag = "times"
    /\ gen_now > ClockTime(start_hour, 0, 0)
    /\ \E i, j \in DOMAIN gen_result.times :
          gen_result.times[i] < Day /\ gen_result.times[j] >= Day

\* C24: in the returned list each time is strictly earlier than the next one.
C24_StrictlyIncreasing ==
    gen_result.tag = "times" =>
        \A i \in 1..(Len(gen_result.times) - 1) :
            gen_result.times[i] < gen_result.times[i + 1]

-----------------------------------------------------------------------------
(* The wallet signing port as the adapters see it (WalletService)          *)

Wallets == {"w1"}

\* The keys the wallet store may hold for the wallet.
Keys == {"key1", "key2"}

\* What the port returns for a transaction it broadcast in this run: the hash
\* of the transaction signed with the key the port looked up itself. It names
\* the run, the adapter that asked and the operation.
Hash(op) ==
    [tag |-> "hash", run |-> run.id, by |-> run.service, op |-> op,
     signed_with |-> private_key]

\* What get_private_key returns for a wallet that is not in the store (never
\* added, or removed by remove_wallet), or whose key cannot be decrypted.
NoKey == "None"

\* A plausible slip: the port goes on to build and sign without the check
\* of the key.
port_tx_outcomes_unchecked(chain_id, op) ==
    IF chain_id \notin RPC_URLS THEN {None} ELSE {Hash(op), None}

\* approve_token_for_bridge / send_transaction: None when get_private_key
\* gave no key (nothing is built, signed or sent) and when the chain is not
\* one of web3_connections; otherwise the hash, or None (no nonce, no gas
\* price, the node refused the transaction).
port_tx_outcomes(chain_id, op) ==
    IF private_key = NoKey \/ chain_id \notin RPC_URLS
    THEN {None} ELSE {Hash(op), None}

\* wait_for_transaction_receipt: None when the chain is not one of
\* web3_connections or when no receipt came before the timeout; otherwise
\* the receipt, whose status is 1 for a success and 0 for a revert.
port_receipts(chain_id) ==
    IF chain_id \notin RPC_URLS THEN {None}
    ELSE {None, [tag |-> "receipt", status |-> 1],
          [tag |-> "receipt", status |-> 0]}

\* A plausible slip: any receipt counts as a success.
any_receipt_is_successful(receipt) == receipt # None

\* is_transaction_successful: receipt is not None and receipt.get('status') == 1
is_transaction_successful(receipt) == receipt # None /\ receipt.status = 1

\* wait_for_transaction: is_transaction_successful(receipt) if receipt else False
wait_for_transaction(receipt) ==
    IF receipt # None THEN is_transaction_successful(receipt) ELSE FALSE

\* What wait_for_transaction can return on a chain.
port_wait_outcomes(chain_id) ==
    {wait_for_transaction(receipt) : receipt \in port_receipts(chain_id)}

APPROVAL_TIMEOUT == 180
TX_TIMEOUT == 300

-----------------------------------------------------------------------------
(* Amounts as the providers write them *)

\* The digits of a string of digits read in a base (Python's int(text, base)).
RECURSIVE digits_value(_, _)
digits_value(digits, base) ==
    IF digits = <<>> THEN 0
    ELSE digits_value(SubSeq(digits, 1, Len(digits) - 1), base) * base
         + digits[Len(digits)]

\* The amount 50 as a provider may write it: "0x32", "50" or the number 50.
AmountEncodings ==
    {[kind |-> "str", prefix |-> TRUE,  digits |-> <<3, 2>>],
     [kind |-> "str", prefix |-> FALSE, digits |-> <<5, 0>>],
     [kind |-> "int", prefix |-> FALSE, digits |-> <<5, 0>>]}

\* jumper: int(approval_data.get("amount", "0"), 16); a number instead of a
\* string raises TypeError.
jumper_approval_amount(enc) ==
    IF enc.kind = "str" THEN [tag |-> "int", value |-> digits_value(enc.digits, 16)]
    ELSE [tag |-> "raise"]

\* relay: int(amount, 16) if isinstance(amount, str) else int(amount)
relay_approval_amount(enc) ==
    IF enc.kind = "str" THEN [tag |-> "int", value |-> digits_value(enc.digits, 16)]
    ELSE [tag |-> "int", value |-> digits_value(enc.digits, 10)]

\* What the quote of jumper or relay says about the approval.
ApprovalDatas ==
    {None} \cup {[spender |-> "0xSpender", amount |-> enc] : enc \in AmountEncodings}

\* The source chain as the provider names it in its quote: the name it was
\* asked with, or the chain's number in the provider's own namespace.
provider_chain_ids(from_chain) == {from_chain, "1"}

\* The ids a provider gives its quotes.
RequestIds == {"req1", "req2"}

\* The quotes get_quote can return: None, a quote without its transaction
\* part, or a complete quote.
Quotes(from_chain) ==
    {None, [tag |-> "quote", has_tx |-> FALSE]} \cup
    {[tag |-> "quote", has_tx |-> TRUE, approvalData |-> a,
      fromChainId |-> c, tool |-> "across", requestId |-> "req1"]
     : a \in ApprovalDatas, c \in provider_chain_ids(from_chain)}

\* The quotes of relay, whose request id is sent back to the provider.
RelayQuotes(from_chain) ==
    {IF quote # None /\ quote.has_tx
     THEN [quote EXCEPT !.requestId = id] ELSE quote
     : quote \in Quotes(from_chain), id \in RequestIds}

\* prepare_transaction_data of jumper and relay
prepare_transaction_data(quote) ==
    IF quote = None \/ ~quote.has_tx THEN None
    ELSE [tag |-> "tx_data", to |-> "0xTarget", data |-> "0xdata", value |-> 0,
          chain_id |-> quote.fromChainId, request_id |-> quote.requestId]

-----------------------------------------------------------------------------
(* Spec: execute_random_bridge and the provider adapters *)

MaxRuns == 2

\* The balance mappings update_balances returns in this model.
NoBalances == [c \in {} |-> 0]
OneChainBalances == [c \in {"ethereum"} |-> [t \in {"ETH"} |-> 100]]
TwoChainBalances ==
    [c \in {"ethereum", "polygon"} |->
        IF c = "ethereum" THEN [t \in {"ETH"} |-> 100]
        ELSE [t \in {"USDC", "DAI"} |-> IF t = "USDC" THEN 100 ELSE 0]]
BalanceCases == {NoBalances, OneChainBalances, TwoChainBalances}

\* available_chains = list(balances.keys()); check_all_balances fills the
\* mapping in the order of SUPPORTED_CHAINS.
available_chains_of(balances) ==
    SelectSeq(SUPPORTED_CHAINS, LAMBDA c : c \in DOMAIN balances)

\* available_tokens[chain][token_symbol] = {"address": "0x...", "balance": balance}
available_tokens_of(balances) ==
    [c \in DOMAIN balances |->
        [t \in DOMAIN balances[c] |->
            [address |-> PlaceholderAddress, balance |-> balances[c][t]]]]

\* str(amount) of a float always has a fraction or an exponent.
str_of_float(amount_num) == [kind |-> "decimal", num |-> amount_num, den |-> AmountDen]

\* An amount string that is a plain integer literal, such as "50".
int_literal(n) == [kind |-> "integer", num |-> n, den |-> 1]

\* The chains for which StargateBridgeService.__init__ built a router contract.
router_contracts == STARGATE_CHAINS \cap RPC_URLS

NewRun(via, wallet) ==
    [id |-> nextId, via |-> via, wallet |-> wallet, service |-> "",
     from_chain |-> "", to_chain |-> "", from_token |-> "", to_token |-> "",
     token_address |-> None, amount |-> None, amount_wei |-> None,
     balances |-> None, quote |-> NotCalled, tx_data |-> None, approval_tx_hash |-> None,
     tx_hash |-> None, fee |-> None, failed |-> "", result |-> None,
     history0 |-> history]

\* The adapter returns: to execute_random_bridge, or to whoever called it.
AdapterReturns(r, failed, result) ==
    /\ run' = [r EXCEPT !.failed = failed, !.result = result]
    /\ pc' = IF r.via = "aggregator" THEN "agg_finish" ELSE "returned"

Logged(call) == calls' = Append(calls, call)

Init ==
    /\ pc = "idle"
    /\ run = None
    /\ calls = <<>>
    /\ history = <<>>
    /\ nextId = 1
    /\ private_key \in Keys \cup {NoKey}
    /\ NonceIdle /\ SchedIdle /\ SelIdle /\ SvcIdle /\ TimeIdle /\ NotifyIdle /\ WalletIdle

\* A token named by its symbol.
Symbol(text) == [tag |-> "symbol", text |-> text]

\* Where execute_bridge of each service starts.
start_pc(service_name) ==
    CASE service_name = "jumper"   -> "jumper_quote"
      [] service_name = "stargate" -> "stargate_start"
      [] service_name = "relay"    -> "relay_quote"

OthersUnchanged == UNCHANGED <<nonceVars, schedVars, selVars, svcVars, timeVars, notifyVars,
                 walletVars>>

\* BridgeService.execute_random_bridge -> BridgeAggregator.execute_random_bridge
ExecuteRandomBridge(wallet) ==
    /\ pc \in {"idle", "returned"}
    /\ nextId <= MaxRuns
    /\ pc' = "agg_balances"
    /\ run' = NewRun("aggregator", wallet)
    /\ calls' = <<>>
    /\ nextId' = nextId + 1
    /\ UNCHANGED <<history, private_key>>
    /\ OthersUnchanged

\* balances = wallet_service.update_balances(wallet_address)
AggUpdateBalances ==
    /\ pc = "agg_balances"
    /\ \/ \E balances \in BalanceCases :
            /\ Logged([op |-> "update_balances", wallet |-> run.wallet, raised |-> FALSE])
            /\ IF DOMAIN balances = {}
               THEN /\ run' = [run EXCEPT !.failed = "balances"]
                    /\ pc' = "returned"
               ELSE /\ run' = [run EXCEPT !.balances = balances]
                    /\ pc' = "agg_select"
       \/ /\ Logged([op |-> "update_balances", wallet |-> run.wallet, raised |-> TRUE])
          /\ run' = [run EXCEPT !.failed = "exception"]
          /\ pc' = "returned"
    /\ UNCHANGED <<history, nextId, private_key>>
    /\ OthersUnchanged

\* The selection of the transfer and of the service, and the call of
\* service.execute_bridge with the arguments of that service.
AggSelect ==
    /\ pc = "agg_select"
    /\ \E transaction \in select_random_transaction(
                              available_chains_of(run.balances),
                              available_tokens_of(run.balances)) :
          IF transaction = None
          THEN /\ run' = [run EXCEPT !.failed = "selection"]
               /\ pc' = "returned"
          ELSE \E service_name \in select_random_service(
                       transaction.from_chain, transaction.to_chain,
                       transaction.token_symbol) :
                 /\ run' = [run EXCEPT
                       !.service = service_name,
                       !.from_chain = transaction.from_chain,
                       !.to_chain = transaction.to_chain,
                       !.from_token = IF service_name = "relay"
                                      THEN transaction.token_address
                                      ELSE Symbol(transaction.token_symbol),
                       !.to_token = IF service_name = "relay"
                                    THEN transaction.token_address
                                    ELSE Symbol(transaction.token_symbol),
                       !.token_address = IF service_name = "stargate"
                                         THEN transaction.token_address ELSE None,
                       !.amount = str_of_float(transaction.amount_num)]
                 /\ pc' = start_pc(service_name)
    /\ UNCHANGED <<calls, history, nextId, private_key>>
    /\ OthersUnchanged

\* A plausible slip: the entry is tagged with the bridge type of the result.
history_entry_by_bridge_type(result, service_name) ==
    [service |-> result.bridge_type, object |-> <<"entry", run.id>>] @@ result

\* The dict object that execute_bridge of the run returned.
result_object == <<"result", run.id>>

\* A plausible slip: result["service"] = service_name, and the result object
\* itself is appended.
history_entry_is_result(result, service_name) ==
    [service |-> service_name, object |-> result_object] @@ result

\* {**result, "service": service_name}: a new dict object with the items of
\* the result.
history_entry(result, service_name) ==
    [service |-> service_name, object |-> <<"entry", run.id>>] @@ result

\* A plausible slip: the attempt is recorded whatever its result.
AggFinishAlways ==
    /\ pc = "agg_finish"
    /\ history' = Append(history,
                         IF run.result # None
                         THEN history_entry(run.result, run.service)
                         ELSE [service |-> run.service, status |-> "failed",
                               object |-> <<"entry", run.id>>])
    /\ pc' = "returned"
    /\ UNCHANGED <<run, calls, nextId, private_key>>
    /\ OthersUnchanged

\* if result: self.transaction_history.append(...); return result
AggFinish ==
    /\ pc = "agg_finish"
    /\ history' = IF run.result # None
                  THEN Append(history, history_entry(run.result, run.service))
                  ELSE history
    /\ pc' = "returned"
    /\ UNCHANGED <<run, calls, nextId, private_key>>
    /\ OthersUnchanged

\* Whoever received the result of the run (the caller, a notification
\* callback) writes into it, as notify_transaction_failed does:
\* transaction_data["status"] = "failed". Every reference to that dict object
\* sees the new status.
ResultMutated ==
    /\ pc = "returned"
    /\ run.result # None
    /\ run.result.status # "failed"
    /\ run' = [run EXCEPT !.result.status = "failed"]
    /\ history' = [k \in DOMAIN history |->
                      IF history[k].object = result_object
                      THEN [history[k] EXCEPT !.status = "failed"]
                      ELSE history[k]]
    /\ UNCHANGED <<pc, calls, nextId, private_key>>
    /\ OthersUnchanged

\* The arguments with which execute_bridge of a service is called directly.
DirectArgs(service_name) ==
    IF service_name = "stargate"
    THEN {[from_chain |-> f, to_chain |-> t, from_token |-> Symbol(sym),
           to_token |-> Symbol(sym), token_address |-> a, amount |-> am]
          : f \in {"ethereum", "bsc"}, t \in {"polygon", "binance-smart-chain"},
            sym \in {"ETH", "USDC"}, a \in {PlaceholderAddress, None},
            am \in {int_literal(50), str_of_float(50 * AmountDen)}}
    ELSE IF service_name = "jumper"
    THEN {[from_chain |-> "ethereum", to_chain |-> "polygon",
           from_token |-> Symbol("USDC"), to_token |-> Symbol("USDC"),
           token_address |-> None, amount |-> int_literal(50)]}
    ELSE {[from_chain |-> "ethereum", to_chain |-> "polygon",
           from_token |-> PlaceholderAddress, to_token |-> PlaceholderAddress,
           token_address |-> None, amount |-> int_literal(50)]}

\* service.execute_bridge called by another caller than the aggregator.
ExecuteBridge(wallet, service_name) ==
    /\ pc \in {"idle", "returned"}
    /\ nextId <= MaxRuns
    /\ \E a \in DirectArgs(service_name) :
          run' = [NewRun("adapter", wallet) EXCEPT
                    !.service = service_name,
                    !.from_chain = a.from_chain, !.to_chain = a.to_chain,
                    !.from_token = a.from_token, !.to_token = a.to_token,
                    !.token_address = a.token_address, !.amount = a.amount]
    /\ pc' = start_pc(service_name)
    /\ calls' = <<>>
    /\ nextId' = nextId + 1
    /\ UNCHANGED <<history, private_key>>
    /\ OthersUnchanged

-----------------------------------------------------------------------------
(* JumperBridgeService.execute_bridge *)

\* get_quote and prepare_transaction_data
JumperGetQuote ==
    /\ pc = "jumper_quote"
    /\ \E quote \in Quotes(run.from_chain) :
          LET tx_data == prepare_transaction_data(quote)
              r == [run EXCEPT !.quote = quote, !.tx_data = tx_data]
          IN  /\ Logged([op |-> "get_quote", ret |-> quote])
              /\ IF tx_data = None
                 THEN AdapterReturns(r, "quote", None)
                 ELSE /\ run' = r
                      /\ pc' = IF quote.approvalData # None
                               THEN "jumper_approve" ELSE "jumper_send"
    /\ UNCHANGED <<history, nextId, private_key>>
    /\ OthersUnchanged

\* approval_tx_hash = wallet_service.approve_token_for_bridge(...)
JumperApprove ==
    /\ pc = "jumper_approve"
    /\ LET amount == jumper_approval_amount(run.quote.approvalData.amount) IN
       IF amount.tag = "raise"
       THEN /\ AdapterReturns(run, "exception", None)
            /\ UNCHANGED calls
       ELSE \E ret \in port_tx_outcomes(run.tx_data.chain_id, "approve") :
              /\ Logged([op |-> "approve", wallet |-> run.wallet,
                         chain_id |-> run.tx_data.chain_id,
                         spender |-> run.quote.approvalData.spender,
                         amount |-> amount.value, ret |-> ret])
              /\ IF ret = None
                 THEN AdapterReturns(run, "approval", None)
                 ELSE /\ run' = [run EXCEPT !.approval_tx_hash = ret]
                      /\ pc' = "jumper_approve_wait"
    /\ UNCHANGED <<history, nextId, private_key>>
    /\ OthersUnchanged

\* A plausible slip: the outcome of the wait is not looked at.
JumperApproveWaitIgnored ==
    /\ pc = "jumper_approve_wait"
    /\ \E receipt \in port_receipts(run.tx_data.chain_id) :
          LET ret == wait_for_transaction(receipt) IN
          /\ Logged([op |-> "wait", what |-> "approval",
                     chain_id |-> run.tx_data.chain_id,
                     tx_hash |-> run.approval_tx_hash,
                     timeout |-> APPROVAL_TIMEOUT, receipt |-> receipt,
                     ret |-> ret])
          /\ pc' = "jumper_send"
          /\ UNCHANGED run
    /\ UNCHANGED <<history, nextId, private_key>>
    /\ OthersUnchanged

\* approval_success = wallet_service.wait_for_transaction(..., timeout=180)
JumperApproveWait ==
    /\ pc = "jumper_approve_wait"
    /\ \E receipt \in port_receipts(run.tx_data.chain_id) :
          LET ret == wait_for_transaction(receipt) IN
          /\ Logged([op |-> "wait", what |-> "approval",
                     chain_id |-> run.tx_data.chain_id,
                     tx_hash |-> run.approval_tx_hash,
                     timeout |-> APPROVAL_TIMEOUT, receipt |-> receipt,
                     ret |-> ret])
          /\ IF ret
             THEN /\ pc' = "jumper_send"
                  /\ UNCHANGED run
             ELSE AdapterReturns(run, "approval", None)
    /\ UNCHANGED <<history, nextId, private_key>>
    /\ OthersUnchanged

\* A plausible slip: a send that gave no hash is tried a second time.
JumperSendRetried ==
    /\ pc = "jumper_send"
    /\ \E ret \in port_tx_outcomes(run.tx_data.chain_id, "send") :
          /\ Logged([op |-> "send", wallet |-> run.wallet,
                     chain_id |-> run.tx_data.chain_id,
                     to |-> run.tx_data.to, value |-> run.tx_data.value,
                     data |-> run.tx_data.data, ret |-> ret])
          /\ IF ret = None
             THEN IF \E i \in DOMAIN calls : calls[i].op = "send"
                  THEN AdapterReturns(run, "submission", None)
                  ELSE pc' = pc /\ UNCHANGED run
             ELSE /\ run' = [run EXCEPT !.tx_hash = ret]
                  /\ pc' = "jumper_send_wait"
    /\ UNCHANGED <<history, nextId, private_key>>
    /\ OthersUnchanged

\* A plausible slip: the adapter signs through the transaction manager and
\* hands it the key.
JumperSendWithKey ==
    /\ pc = "jumper_send"
    /\ \E ret \in port_tx_outcomes(run.tx_data.chain_id, "send") :
          /\ Logged([op |-> "send", wallet |-> run.wallet,
                     chain_id |-> run.tx_data.chain_id,
                     to |-> run.tx_data.to, value |-> run.tx_data.value,
                     data |-> run.tx_data.data, private_key |-> private_key,
                     ret |-> ret])
          /\ IF ret = None
             THEN AdapterReturns(run, "submission", None)
             ELSE /\ run' = [run EXCEPT !.tx_hash = ret]
                  /\ pc' = "jumper_send_wait"
    /\ UNCHANGED <<history, nextId, private_key>>
    /\ OthersUnchanged

\* tx_hash = wallet_service.send_transaction(...)
JumperSend ==
    /\ pc = "jumper_send"
    /\ \E ret \in port_tx_outcomes(run.tx_data.chain_id, "send") :
          /\ Logged([op |-> "send", wallet |-> run.wallet,
                     chain_id |-> run.tx_data.chain_id,
                     to |-> run.tx_data.to, value |-> run.tx_data.value,
                     data |-> run.tx_data.data, ret |-> ret])
          /\ IF ret = None
             THEN AdapterReturns(run, "submission", None)
             ELSE /\ run' = [run EXCEPT !.tx_hash = ret]
                  /\ pc' = "jumper_send_wait"
    /\ UNCHANGED <<history, nextId, private_key>>
    /\ OthersUnchanged

\* A plausible slip: a timeout still reports the transaction, as unconfirmed.
JumperSendWaitLenient ==
    /\ pc = "jumper_send_wait"
    /\ \E receipt \in port_receipts(run.tx_data.chain_id) :
          LET ret == wait_for_transaction(receipt) IN
          /\ Logged([op |-> "wait", what |-> "tx",
                     chain_id |-> run.tx_data.chain_id,
                     tx_hash |-> run.tx_hash,
                     timeout |-> TX_TIMEOUT, receipt |-> receipt,
                     ret |-> ret])
          /\ AdapterReturns(run, "",
                    [tx_hash |-> run.tx_hash, bridge_type |-> run.quote.tool,
                     from_chain |-> run.from_chain, to_chain |-> run.to_chain,
                     from_token |-> run.from_token, to_token |-> run.to_token,
                     amount |-> run.amount,
                     status |-> IF ret THEN "pending" ELSE "unconfirmed"])
    /\ UNCHANGED <<history, nextId, private_key>>
    /\ OthersUnchanged

\* tx_success = wallet_service.wait_for_transaction(..., timeout=300) and the
\* result
JumperSendWait ==
    /\ pc = "jumper_send_wait"
    /\ \E receipt \in port_receipts(run.tx_data.chain_id) :
          LET ret == wait_for_transaction(receipt) IN
          /\ Logged([op |-> "wait", what |-> "tx",
                     chain_id |-> run.tx_data.chain_id,
                     tx_hash |-> run.tx_hash,
                     timeout |-> TX_TIMEOUT, receipt |-> receipt,
                     ret |-> ret])
          /\ IF ret
             THEN AdapterReturns(run, "",
                    [tx_hash |-> run.tx_hash, bridge_type |-> run.quote.tool,
                     from_chain |-> run.from_chain, to_chain |-> run.to_chain,
                     from_token |-> run.from_token, to_token |-> run.to_token,
                     amount |-> run.amount, status |-> "pending"])
             ELSE AdapterReturns(run, "confirmation", None)
    /\ UNCHANGED <<history, nextId, private_key>>
    /\ OthersUnchanged

-----------------------------------------------------------------------------
(* RelayBridgeService.execute_bridge *)

\* get_quote and prepare_transaction_data
RelayGetQuote ==
    /\ pc = "relay_quote"
    /\ \E quote \in RelayQuotes(run.from_chain) :
          LET tx_data == prepare_transaction_data(quote)
              r == [run EXCEPT !.quote = quote, !.tx_data = tx_data]
          IN  /\ Logged([op |-> "get_quote", ret |-> quote])
              /\ IF tx_data = None
                 THEN AdapterReturns(r, "quote", None)
                 ELSE /\ run' = r
                      /\ pc' = IF quote.approvalData # None
                               THEN "relay_approve" ELSE "relay_send"
    /\ UNCHANGED <<history, nextId, private_key>>
    /\ OthersUnchanged

\* approval_tx_hash = wallet_service.approve_token_for_bridge(...)
RelayApprove ==
    /\ pc = "relay_approve"
    /\ \E ret \in port_tx_outcomes(run.tx_data.chain_id, "approve") :
          /\ Logged([op |-> "approve", wallet |-> run.wallet,
                     chain_id |-> run.tx_data.chain_id,
                     spender |-> run.quote.approvalData.spender,
                     amount |-> relay_approval_amount(
                                    run.quote.approvalData.amount).value,
                     ret |-> ret])
          /\ IF ret = None
             THEN AdapterReturns(run, "approval", None)
             ELSE /\ run' = [run EXCEPT !.approval_tx_hash = ret]
                  /\ pc' = "relay_approve_wait"
    /\ UNCHANGED <<history, nextId, private_key>>
    /\ OthersUnchanged

\* approval_success = wallet_service.wait_for_transaction(..., timeout=180)
RelayApproveWait ==
    /\ pc = "relay_approve_wait"
    /\ \E receipt \in port_receipts(run.tx_data.chain_id) :
          LET ret == wait_for_transaction(receipt) IN
          /\ Logged([op |-> "wait", what |-> "approval",
                     chain_id |-> run.tx_data.chain_id,
                     tx_hash |-> run.approval_tx_hash,
                     timeout |-> APPROVAL_TIMEOUT, receipt |-> receipt,
                     ret |-> ret])
          /\ IF ret
             THEN /\ pc' = "relay_send"
                  /\ UNCHANGED run
             ELSE AdapterReturns(run, "approval", None)
    /\ UNCHANGED <<history, nextId, private_key>>
    /\ OthersUnchanged

\* tx_hash = wallet_service.send_transaction(...)
RelaySend ==
    /\ pc = "relay_send"
    /\ \E ret \in port_tx_outcomes(run.tx_data.chain_id, "send") :
          /\ Logged([op |-> "send", wallet |-> run.wallet,
                     chain_id |-> run.tx_data.chain_id,
                     to |-> run.tx_data.to, value |-> run.tx_data.value,
                     data |-> run.tx_data.data, ret |-> ret])
          /\ IF ret = None
             THEN AdapterReturns(run, "submission", None)
             ELSE /\ run' = [run EXCEPT !.tx_hash = ret]
                  /\ pc' = "relay_notify"
    /\ UNCHANGED <<history, nextId, private_key>>
    /\ OthersUnchanged

\* A plausible slip: the provider is not told of the submission.
RelayNotifySkipped ==
    /\ pc = "relay_notify"
    /\ pc' = "relay_send_wait"
    /\ UNCHANGED <<run, calls, history, nextId, private_key>>
    /\ OthersUnchanged

\* A plausible slip: a notification that failed fails the run.
RelayNotifyRequired ==
    /\ pc = "relay_notify"
    /\ \E ok \in BOOLEAN :
          /\ Logged([op |-> "notify_transaction",
                     request_id |-> run.tx_data.request_id,
                     tx_hash |-> run.tx_hash, ret |-> ok])
          /\ IF ok
             THEN pc' = "relay_send_wait" /\ UNCHANGED run
             ELSE AdapterReturns(run, "notification", None)
    /\ UNCHANGED <<history, nextId, private_key>>
    /\ OthersUnchanged

\* notification_result = self.notify_transaction(request_id, tx_hash); a
\* failure is logged and the run goes on.
RelayNotify ==
    /\ pc = "relay_notify"
    /\ \E ok \in BOOLEAN :
          Logged([op |-> "notify_transaction",
                  request_id |-> run.tx_data.request_id,
                  tx_hash |-> run.tx_hash, ret |-> ok])
    /\ pc' = "relay_send_wait"
    /\ UNCHANGED <<run, history, nextId, private_key>>
    /\ OthersUnchanged

\* A plausible slip: the result is returned without looking at the wait.
RelaySendWaitIgnored ==
    /\ pc = "relay_send_wait"
    /\ \E receipt \in port_receipts(run.tx_data.chain_id) :
          LET ret == wait_for_transaction(receipt) IN
          /\ Logged([op |-> "wait", what |-> "tx",
                     chain_id |-> run.tx_data.chain_id,
                     tx_hash |-> run.tx_hash,
                     timeout |-> TX_TIMEOUT, receipt |-> receipt,
                     ret |-> ret])
          /\ AdapterReturns(run, "",
                    [tx_hash |-> run.tx_hash, bridge_type |-> "relay",
                     request_id |-> run.tx_data.request_id,
                     from_chain_id |-> run.from_chain,
                     to_chain_id |-> run.to_chain,
                     from_token |-> run.from_token, to_token |-> run.to_token,
                     amount |-> run.amount, status |-> "pending"])
    /\ UNCHANGED <<history, nextId, private_key>>
    /\ OthersUnchanged

\* tx_success = wallet_service.wait_for_transaction(..., timeout=300) and the
\* result
RelaySendWait ==
    /\ pc = "relay_send_wait"
    /\ \E receipt \in port_receipts(run.tx_data.chain_id) :
          LET ret == wait_for_transaction(receipt) IN
          /\ Logged([op |-> "wait", what |-> "tx",
                     chain_id |-> run.tx_data.chain_id,
                     tx_hash |-> run.tx_hash,
                     timeout |-> TX_TIMEOUT, receipt |-> receipt,
                     ret |-> ret])
          /\ IF ret
             THEN AdapterReturns(run, "",
                    [tx_hash |-> run.tx_hash, bridge_type |-> "relay",
                     request_id |-> run.tx_data.request_id,
                     from_chain_id |-> run.from_chain,
                     to_chain_id |-> run.to_chain,
                     from_token |-> run.from_token, to_token |-> run.to_token,
                     amount |-> run.amount, status |-> "pending"])
             ELSE AdapterReturns(run, "confirmation", None)
    /\ UNCHANGED <<history, nextId, private_key>>
    /\ OthersUnchanged

-----------------------------------------------------------------------------
(* StargateBridgeService.execute_bridge *)

\* The token is an ERC-20 token whose approval the adapter asks for.
stargate_needs_approval(r) ==
    r.from_token.text # "ETH" /\ r.token_address # None

\* amount_wei = web3.to_wei(amount, 'ether') if token_symbol == "ETH" else
\* int(amount); int() of a string with a fraction raises ValueError.
stargate_amount_wei(token_symbol, amount) ==
    IF token_symbol = "ETH"
    THEN [tag |-> "int", num |-> amount.num, den |-> amount.den, exp10 |-> 18]
    ELSE IF amount.kind = "integer"
    THEN [tag |-> "int", num |-> amount.num, den |-> 1, exp10 |-> 0]
    ELSE [tag |-> "raise"]

\* prepare_swap_params: None without a destination chain id or a pool id.
prepare_swap_params(from_chain, to_chain, token_symbol, amount) ==
    IF get_chain_id(to_chain) = None THEN None
    ELSE IF get_pool_id(token_symbol, from_chain) = None
            \/ get_pool_id(token_symbol, to_chain) = None THEN None
    ELSE [tag |-> "swap_params", dst_chain_id |-> get_chain_id(to_chain),
          src_pool_id |-> get_pool_id(token_symbol, from_chain),
          dst_pool_id |-> get_pool_id(token_symbol, to_chain),
          amount |-> amount]

\* The check of the source chain and the conversion of the amount.
StargateStart ==
    /\ pc = "stargate_start"
    /\ IF run.from_chain \notin router_contracts
       THEN AdapterReturns(run, "route", None)
       ELSE LET amount_wei == stargate_amount_wei(run.from_token.text, run.amount) IN
            IF amount_wei.tag = "raise"
            THEN AdapterReturns(run, "exception", None)
            ELSE /\ run' = [run EXCEPT !.amount_wei = amount_wei]
                 /\ pc' = IF stargate_needs_approval(run)
                          THEN "stargate_approve" ELSE "stargate_swap_params"
    /\ UNCHANGED <<calls, history, nextId, private_key>>
    /\ OthersUnchanged

\* approval_tx_hash = wallet_service.approve_token_for_bridge(...)
StargateApprove ==
    /\ pc = "stargate_approve"
    /\ \E ret \in port_tx_outcomes(run.from_chain, "approve") :
          /\ Logged([op |-> "approve", wallet |-> run.wallet,
                     chain_id |-> run.from_chain,
                     spender |-> "router", amount |-> run.amount_wei,
                     ret |-> ret])
          /\ IF ret = None
             THEN AdapterReturns(run, "approval", None)
             ELSE /\ run' = [run EXCEPT !.approval_tx_hash = ret]
                  /\ pc' = "stargate_approve_wait"
    /\ UNCHANGED <<history, nextId, private_key>>
    /\ OthersUnchanged

\* approval_success = wallet_service.wait_for_transaction(..., timeout=180)
StargateApproveWait ==
    /\ pc = "stargate_approve_wait"
    /\ \E receipt \in port_receipts(run.from_chain) :
          LET ret == wait_for_transaction(receipt) IN
          /\ Logged([op |-> "wait", what |-> "approval",
                     chain_id |-> run.from_chain,
                     tx_hash |-> run.approval_tx_hash,
                     timeout |-> APPROVAL_TIMEOUT, receipt |-> receipt,
                     ret |-> ret])
          /\ IF ret
             THEN /\ pc' = "stargate_swap_params"
                  /\ UNCHANGED run
             ELSE AdapterReturns(run, "approval", None)
    /\ UNCHANGED <<history, nextId, private_key>>
    /\ OthersUnchanged

\* swap_params = self.prepare_swap_params(...)
StargateSwapParams ==
    /\ pc = "stargate_swap_params"
    /\ LET swap_params == prepare_swap_params(run.from_chain, run.to_chain,
                              run.from_token.text, run.amount_wei)
       IN  IF swap_params = None
           THEN AdapterReturns(run, "route", None)
           ELSE /\ run' = [run EXCEPT !.tx_data = swap_params]
                /\ pc' = "stargate_quote_fee"
    /\ UNCHANGED <<calls, history, nextId, private_key>>
    /\ OthersUnchanged

\* fee = self.quote_fee(...): the router's quoteLayerZeroFee, or None.
StargateQuoteFee ==
    /\ pc = "stargate_quote_fee"
    /\ \E fee \in {[tag |-> "fee"], None} :
          /\ Logged([op |-> "quote_fee", ret |-> fee])
          /\ IF fee = None
             THEN AdapterReturns(run, "quote", None)
             ELSE /\ run' = [run EXCEPT !.fee = fee]
                  /\ pc' = "stargate_send"
    /\ UNCHANGED <<history, nextId, private_key>>
    /\ OthersUnchanged

\* tx_hash = wallet_service.send_transaction(...)
StargateSend ==
    /\ pc = "stargate_send"
    /\ \E ret \in port_tx_outcomes(run.from_chain, "send") :
          /\ Logged([op |-> "send", wallet |-> run.wallet,
                     chain_id |-> run.from_chain, to |-> "router",
                     value |-> [fee |-> run.fee,
                                plus |-> IF run.from_token.text = "ETH"
                                         THEN run.amount_wei ELSE None],
                     data |-> run.tx_data, ret |-> ret])
          /\ IF ret = None
             THEN AdapterReturns(run, "submission", None)
             ELSE /\ run' = [run EXCEPT !.tx_hash = ret]
                  /\ pc' = "stargate_send_wait"
    /\ UNCHANGED <<history, nextId, private_key>>
    /\ OthersUnchanged

\* tx_success = wallet_service.wait_for_transaction(..., timeout=300) and the
\* result
StargateSendWait ==
    /\ pc = "stargate_send_wait"
    /\ \E receipt \in port_receipts(run.from_chain) :
          LET ret == wait_for_transaction(receipt) IN
          /\ Logged([op |-> "wait", what |-> "tx",
                     chain_id |-> run.from_chain,
                     tx_hash |-> run.tx_hash,
                     timeout |-> TX_TIMEOUT, receipt |-> receipt,
                     ret |-> ret])
          /\ IF ret
             THEN AdapterReturns(run, "",
                    [tx_hash |-> run.tx_hash, bridge_type |-> "stargate",
                     from_chain |-> run.from_chain, to_chain |-> run.to_chain,
                     from_token |-> run.from_token, to_token |-> run.to_token,
                     amount |-> run.amount, status |-> "pending"])
             ELSE AdapterReturns(run, "confirmation", None)
    /\ UNCHANGED <<history, nextId, private_key>>
    /\ OthersUnchanged

-----------------------------------------------------------------------------
Services == {"jumper", "stargate", "relay"}

Next ==
    \/ \E wallet \in Wallets : ExecuteRandomBridge(wallet)
    \/ \E wallet \in Wallets, service_name \in Services :
           ExecuteBridge(wallet, service_name)
    \/ AggUpdateBalances
    \/ AggSelect
    \/ AggFinish
    \/ ResultMutated
    \/ JumperGetQuote
    \/ JumperApprove
    \/ JumperApproveWait
    \/ JumperSend
    \/ JumperSendWait
    \/ RelayGetQuote
    \/ RelayApprove
    \/ RelayApproveWait
    \/ RelaySend
    \/ RelayNotify
    \/ RelaySendWait
    \/ StargateStart
    \/ StargateApprove
    \/ StargateApproveWait
    \/ StargateSwapParams
    \/ StargateQuoteFee
    \/ StargateSend
    \/ StargateSendWait

Spec == Init /\ [][Next]_vars

\* The steps that block on requests.get / requests.post: the call is made
\* without a timeout, so the step is taken only when the provider answers.
AwaitsProvider ==
    \/ JumperGetQuote
    \/ RelayGetQuote
    \/ RelayNotify

\* The steps that end by themselves: local computation, calls to the chain
\* node (the HTTP provider of web3 gives up after its own timeout) and the
\* confirmation waits, which stop at their ceiling.
BoundedSteps ==
    \/ AggUpdateBalances
    \/ AggSelect
    \/ AggFinish
    \/ JumperApprove
    \/ JumperApproveWait
    \/ JumperSend
    \/ JumperSendWait
    \/ RelayApprove
    \/ RelayApproveWait
    \/ RelaySend
    \/ RelaySendWait
    \/ StargateStart
    \/ StargateApprove
    \/ StargateApproveWait
    \/ StargateSwapParams
    \/ StargateQuoteFee
    \/ StargateSend
    \/ StargateSendWait

\* The runs under a scheduler that keeps running the thread of the run and a
\* provider that may never answer.
SpecTermination == Init /\ [][Next]_vars /\ WF_vars(BoundedSteps)

\* C21: every run that has started eventually returns, whatever the provider
\* and the chain do.
C21_EveryRunReturns == (pc \notin {"idle", "returned"}) ~> (pc = "returned")

-----------------------------------------------------------------------------
(* Properties of one run; calls is the log of the port calls of the run *)

approval_failed_at(i) ==
    \/ calls[i].op = "approve" /\ calls[i].ret = None
    \/ calls[i].op = "wait" /\ calls[i].what = "approval" /\ ~calls[i].ret

approval_failed == \E i \in DOMAIN calls : approval_failed_at(i)

\* C1: in every provider adapter, a run in which the approval step fails (no
\* hash from approve, or the wait for the approval returns false) calls send
\* no more, returns no result and leaves the history as it was.
C1_NoSendAfterFailedApproval ==
    \A i \in DOMAIN calls :
        approval_failed_at(i) =>
            /\ \A j \in DOMAIN calls : j > i => calls[j].op # "send"
            /\ run.result = None
            /\ history = run.history0

\* A run of execute_random_bridge has returned after the wait for the approval
\* of its adapter returned false.
C1_Witness ==
    /\ pc = "returned"
    /\ run.via = "aggregator"
    /\ \E i \in DOMAIN calls :
          calls[i].op = "wait" /\ calls[i].what = "approval" /\ ~calls[i].ret

\* The run asks for an approval: the quote of jumper or relay carries approval
\* data, or the token given to stargate is an ERC-20 token with an address.
approval_required ==
    IF run.service = "stargate"
    THEN pc \notin {"stargate_start"} /\ stargate_needs_approval(run)
    ELSE run.quote # NotCalled /\ run.quote # None
         /\ run.quote.has_tx /\ run.quote.approvalData # None

confirmed_before(i, what, tx_hash) ==
    \E j \in DOMAIN calls :
        /\ j < i
        /\ calls[j].op = "wait" /\ calls[j].what = what
        /\ calls[j].tx_hash = tx_hash /\ calls[j].ret

\* C2: within one run, when an approval is required its confirmation precedes
\* the send call, and a success result is returned only after the wait for
\* the hash that send returned has returned true.
C2_ConfirmationsPrecede ==
    /\ \A i \in DOMAIN calls :
          (calls[i].op = "send" /\ approval_required) =>
              /\ run.approval_tx_hash # None
              /\ confirmed_before(i, "approval", run.approval_tx_hash)
    /\ (run # None /\ run.result # None) =>
          /\ \E i \in DOMAIN calls :
                /\ calls[i].op = "send" /\ calls[i].ret = run.result.tx_hash
                /\ \E j \in DOMAIN calls :
                      /\ j > i
                      /\ calls[j].op = "wait" /\ calls[j].what = "tx"
                      /\ calls[j].tx_hash = run.result.tx_hash /\ calls[j].ret

\* A relay run that needed an approval has returned a success result.
C2_Witness ==
    /\ pc = "returned"
    /\ run.service = "relay"
    /\ approval_required
    /\ run.result # None

\* C3: each entry of the history carries the hash that send returned to the
\* adapter of its run, the status "pending" and the name of the service that
\* ran it; a run that fails at the quote leaves the history as it was.
C3_HistoryEntries ==
    /\ \A k \in DOMAIN history :
          /\ history[k].tx_hash.tag = "hash"
          /\ history[k].tx_hash.op = "send"
          /\ history[k].status = "pending"
          /\ history[k].service = history[k].tx_hash.by
    /\ (pc = "returned" /\ run # None /\ run.failed = "quote") =>
          history = run.history0

\* The history holds an entry of a jumper run.
C3_Witness ==
    \E k \in DOMAIN history :
        history[k].service = "jumper" /\ history[k].tx_hash.by = "jumper"

\* C4: execute_random_bridge that fails at any stage returns None and the
\* history is what it was before the call.
C4_FailureLeavesHistory ==
    (pc = "returned" /\ run # None /\ run.via = "aggregator" /\ run.failed # "") =>
        /\ run.result = None
        /\ history = run.history0

\* execute_random_bridge has failed at the confirmation of the submission,
\* with a history that was not empty.
C4_Witness ==
    /\ pc = "returned"
    /\ run # None
    /\ run.via = "aggregator"
    /\ run.failed = "confirmation"
    /\ history # <<>>

\* The wait for the hash that send returned has returned false.
confirmation_failed ==
    \E i \in DOMAIN calls :
        /\ calls[i].op = "wait" /\ calls[i].what = "tx" /\ ~calls[i].ret
        /\ \E j \in 1..(i - 1) : calls[j].op = "send" /\ calls[j].ret = calls[i].tx_hash

\* C12: a run whose submission was sent but whose confirmation wait returned
\* false returns no result and appends nothing to the history; a wait is only
\* ever made by the run that obtained the hash, before it returns, so nothing
\* watches the transaction afterwards.
C12_TimeoutIsFailure ==
    /\ confirmation_failed =>
          /\ run.result = None
          /\ history = run.history0
          /\ pc \in {"agg_finish", "returned"}
    /\ \A i \in DOMAIN calls :
          calls[i].op = "wait" =>
              /\ calls[i].tx_hash.run = run.id
              /\ i = Len(calls) \/ calls[i].ret

\* A stargate run has returned after the wait for its submission timed out.
C12_Witness ==
    /\ pc = "returned"
    /\ run.service = "stargate"
    /\ confirmation_failed

\* notify_transaction of the run returned nothing.
notification_failed ==
    \E i \in DOMAIN calls : calls[i].op = "notify_transaction" /\ ~calls[i].ret

\* The wait for the submission of the run returned true.
submission_confirmed ==
    \E i \in DOMAIN calls :
        calls[i].op = "wait" /\ calls[i].what = "tx" /\ calls[i].ret

\* C13: in the relay adapter a notification that failed does not decide the
\* run: the wait for the submission is still made, and the run that has
\* returned succeeded exactly when that wait returned true.
C13_NotifyFailureIgnored ==
    (run # None /\ run.service = "relay" /\ notification_failed) =>
        /\ pc \in {"relay_send_wait", "agg_finish", "returned"}
        /\ pc \in {"agg_finish", "returned"} =>
              /\ \E i \in DOMAIN calls : calls[i].op = "wait" /\ calls[i].what = "tx"
              /\ (run.result # None) <=> submission_confirmed

\* A relay run has succeeded although its notification failed.
C13_Witness ==
    /\ pc = "returned"
    /\ run.service = "relay"
    /\ notification_failed
    /\ run.result # None

\* The integer a provider means by an amount: hexadecimal digits after the
\* prefix 0x, decimal digits otherwise.
quoted_amount(enc) ==
    digits_value(enc.digits, IF enc.prefix THEN 16 ELSE 10)

\* C19: the approve call of a run of jumper or relay carries the spender of
\* the quote and the integer amount the quote gives, in whichever encoding
\* the provider wrote it.
C19_ApprovalAsQuoted ==
    \A i \in DOMAIN calls :
        (calls[i].op = "approve" /\ run.service \in {"jumper", "relay"}) =>
            /\ calls[i].spender = run.quote.approvalData.spender
            /\ calls[i].amount = quoted_amount(run.quote.approvalData.amount)

\* The same hash had the wallet store held another key.
with_key(tx_hash, key) == [tx_hash EXCEPT !.signed_with = key]

\* The request or port call an execution would have issued in place of this
\* one had the wallet store held another key: the returned value aside, only
\* a transaction hash among the arguments changes.
request_with_key(call, key) ==
    IF "tx_hash" \in DOMAIN call
    THEN [call EXCEPT !.tx_hash = with_key(@, key)]
    ELSE [k \in DOMAIN call \ {"private_key"} |-> call[k]]
           @@ (IF "private_key" \in DOMAIN call
               THEN [private_key |-> key] ELSE <<>>)

\* The calls that hand the port something to sign or ask a provider for a
\* quote.
SigningAndQuoteOps ==
    {"update_balances", "get_quote", "quote_fee", "approve", "send"}

\* The calls made so far that returned a transaction hash.
returned_hashes(upto) ==
    {calls[j].ret : j \in {n \in 1..upto : calls[n].op \in {"approve", "send"}}}

\* C20 as stated: two executions that differ only in the stored key issue
\* identical provider requests and identical signing-port arguments, and
\* return identical results.
C20_NothingDependsOnKey ==
    \A key \in Keys :
        /\ \A i \in DOMAIN calls : request_with_key(calls[i], key) = calls[i]
        /\ (pc = "returned" /\ run.result # None) =>
               with_key(run.result.tx_hash, key) = run.result.tx_hash

\* C20 amended: the key is never an argument; the balance, quote, approve and
\* send calls are the same whatever key is stored; the only values that vary
\* with the key are the hashes the port returned, which come back as the
\* argument of the confirmation waits and of the Relay notification and as
\* the hash of the result.
C20_KeyOnlyInsideReturnedHashes ==
    /\ \A i \in DOMAIN calls :
          /\ "private_key" \notin DOMAIN calls[i]
          /\ calls[i].op \in SigningAndQuoteOps =>
                \A key \in Keys : request_with_key(calls[i], key) = calls[i]
          /\ calls[i].op \notin SigningAndQuoteOps =>
                /\ calls[i].op \in {"wait", "notify_transaction"}
                /\ calls[i].tx_hash \in returned_hashes(i - 1)
                /\ calls[i].tx_hash.signed_with = private_key
    /\ (pc = "returned" /\ run.result # None) =>
          run.result.tx_hash \in returned_hashes(Len(calls))

C20_Witness ==
    /\ pc = "returned"
    /\ run.result # None
    /\ run.service = "relay"
    /\ \E i \in DOMAIN calls : calls[i].op = "notify_transaction"
    /\ \E key \in Keys : with_key(run.result.tx_hash, key) # run.result.tx_hash

\* The call put a transaction on chain.
broadcasts(call) == call.op \in {"approve", "send"} /\ call.ret # None

\* C26: no approve or send is called before the quote (the fee, for
\* Stargate) has been obtained, and a run that fails for lack of a quote or
\* of a route has broadcast nothing.
C26_NothingBroadcastWithoutQuote ==
    /\ \A i \in DOMAIN calls :
          calls[i].op \in {"approve", "send"} =>
              \E j \in 1..(i - 1) :
                  /\ calls[j].op \in {"get_quote", "quote_fee"}
                  /\ calls[j].ret # None
    /\ (run # None /\ run.failed \in {"quote", "route"}) =>
          \A i \in DOMAIN calls : ~broadcasts(calls[i])

\* C27: when the source chain of a run is one the signing port supports,
\* the chain identifier of every approve, send and wait call of the run is
\* that chain's canonical name, whichever provider issued the quote.
C27_PortGetsCanonicalChain ==
    \A i \in DOMAIN calls :
        (calls[i].op \in {"approve", "send", "wait"}
           /\ run.from_chain \in RPC_URLS) =>
            calls[i].chain_id = run.from_chain

\* The number of calls of one kind in the run.
calls_of(op) == Cardinality({i \in DOMAIN calls : calls[i].op = op})

\* The call is a stage that failed: no quote or an incomplete one, no fee,
\* no hash from approve or send, or a wait that returned false. (The Relay
\* notification is not a stage: its failure is only logged.)
stage_failed_at(i) ==
    \/ calls[i].op = "update_balances" /\ calls[i].raised
    \/ calls[i].op = "get_quote" /\ prepare_transaction_data(calls[i].ret) = None
    \/ calls[i].op \in {"quote_fee", "approve", "send"} /\ calls[i].ret = None
    \/ calls[i].op = "wait" /\ ~calls[i].ret

\* C30: in one run the quote is requested at most once, approve is called
\* at most once and send at most once, and the first stage that fails is the
\* last provider or signing-port call of the run.
C30_NoStageRetried ==
    /\ calls_of("get_quote") <= 1
    /\ calls_of("quote_fee") <= 1
    /\ calls_of("approve") <= 1
    /\ calls_of("send") <= 1
    /\ \A i \in DOMAIN calls : stage_failed_at(i) => i = Len(calls)

\* A run of an adapter returned after its send gave no hash, the approval
\* having been made and confirmed.
C30_Witness ==
    /\ pc = "returned"
    /\ run.failed = "submission"
    /\ calls_of("approve") = 1
    /\ calls_of("send") = 1
    /\ stage_failed_at(Len(calls))

\* C39: for a wallet that is not in the store, approve and send return None
\* and nothing is broadcast; a run for such a wallet, once it has returned,
\* has failed, and no record was added to the history.
C39_NoKeyNoTransaction ==
    private_key = NoKey =>
        /\ \A i \in DOMAIN calls : ~broadcasts(calls[i])
        /\ pc = "returned" => run.result = None
        /\ history = <<>>

\* A run for a wallet without a key got its quote, called approve or send,
\* and returned through the aggregator.
C39_Witness ==
    /\ private_key = NoKey
    /\ pc = "returned"
    /\ run.via = "aggregator"
    /\ run.failed \in {"approval", "submission"}
    /\ \E i \in DOMAIN calls : calls[i].op \in {"approve", "send"}

\* The call is a send that returned a hash.
sent_at(i) == calls[i].op = "send" /\ calls[i].ret # None

\* C40: in a Relay run notify_transaction is called once, right after a
\* send that returned a hash, with that hash and the request id of the
\* quote of the run, and before the wait for the confirmation; it is not
\* called after a send that returned no hash, nor by another adapter.
C40_RelayNotifiedOnceAfterSend ==
    /\ calls_of("notify_transaction") <= 1
    /\ \A i \in DOMAIN calls :
          /\ calls[i].op = "notify_transaction" =>
                /\ run.service = "relay"
                /\ i > 1
                /\ sent_at(i - 1)
                /\ calls[i].tx_hash = calls[i - 1].ret
                /\ \E j \in 1..(i - 1) :
                      /\ calls[j].op = "get_quote"
                      /\ calls[j].ret # None
                      /\ calls[j].ret.has_tx
                      /\ calls[i].request_id = calls[j].ret.requestId
          /\ (run.service = "relay" /\ sent_at(i) /\ i < Len(calls)) =>
                calls[i + 1].op = "notify_transaction"
          /\ (run.service = "relay" /\ calls[i].op = "wait"
                /\ calls[i].what = "tx") =>
                /\ i > 1
                /\ calls[i - 1].op = "notify_transaction"

\* A Relay run whose quote had the second request id told the provider of
\* its submission and then returned after the wait timed out.
C40_Witness ==
    /\ pc = "returned"
    /\ run.service = "relay"
    /\ run.failed = "confirmation"
    /\ calls_of("notify_transaction") = 1
    /\ \E i \in DOMAIN calls :
          /\ calls[i].op = "notify_transaction"
          /\ calls[i].request_id = "req2"
    /\ calls[Len(calls)].op = "wait"
    /\ calls[Len(calls)].receipt = None

\* The wait saw the receipt of a transaction that was reverted.
reverted_at(i) ==
    /\ calls[i].op = "wait"
    /\ calls[i].receipt # None
    /\ calls[i].receipt.status = 0

\* C31: a confirmation wait returns true only for a receipt seen before the
\* timeout that reports status 1; a reverted transaction, a timeout and an
\* unsupported chain return false, and a reverted approval or bridge
\* transaction makes the run fail.
C31_OnlySuccessfulReceiptConfirms ==
    \A i \in DOMAIN calls :
        calls[i].op = "wait" =>
            /\ calls[i].ret <=>
                  (calls[i].receipt # None /\ calls[i].receipt.status = 1)
            /\ calls[i].chain_id \notin RPC_URLS => ~calls[i].ret
            /\ reverted_at(i) =>
                  /\ i = Len(calls)
                  /\ pc \in {"agg_finish", "returned"}
                  /\ run.result = None
                  /\ run.failed \in {"approval", "confirmation"}

\* A run returned after its approval was confirmed and its bridge
\* transaction was reverted.
C31_Witness ==
    /\ pc = "returned"
    /\ calls # <<>>
    /\ reverted_at(Len(calls))
    /\ calls[Len(calls)].what = "tx"
    /\ \E i \in DOMAIN calls : calls[i].op = "approve"

\* C32: the history only grows at its end: no step removes, reorders or
\* changes an entry, also not a write into the result object that was
\* returned to the caller and handed to the notification callbacks.
C32_HistoryAppendOnly ==
    [][/\ Len(history') >= Len(history)
       /\ \A k \in DOMAIN history : history'[k] = history[k]]_vars

\* The result of a run was written into after its entry was appended, and
\* the entry still has the status it was appended with.
C32_Witness ==
    /\ pc = "returned"
    /\ run.result # None
    /\ run.result.status = "failed"
    /\ history # <<>>
    /\ history[Len(history)].tx_hash = run.result.tx_hash
    /\ history[Len(history)].status = "pending"

\* The decimals of a token on chain: 18 for ETH, 6 for the stablecoins.
token_decimals(token_symbol) == IF token_symbol = "ETH" THEN 18 ELSE 6

\* The handed amount num/den * 10^exp10 is the selected decimal amount
\* multiplied by 10^decimals.
in_smallest_unit(handed, selected, decimals) ==
    /\ handed.num * selected.den = selected.num * handed.den
    /\ handed.exp10 = decimals

\* C33: the amounts the Stargate adapter computes and hands to the signing
\* port, the approval amount and the amount inside the native value, are
\* the selected decimal amount multiplied by 10^decimals of the token. (The
\* other adapters hand on the amounts of the provider's quote.)
C33_AmountsInSmallestUnit ==
    \A i \in DOMAIN calls :
        run.service = "stargate" =>
            /\ calls[i].op = "approve" =>
                  in_smallest_unit(calls[i].amount, run.amount,
                                   token_decimals(run.from_token.text))
            /\ (calls[i].op = "send" /\ calls[i].value.plus # None) =>
                  in_smallest_unit(calls[i].value.plus, run.amount,
                                   token_decimals(run.from_token.text))

-----------------------------------------------------------------------------
(* SpecNonce: the signing port called from the two threads of main.py *)

\* The scheduler thread (run_scheduler) and the bot thread (the commands).
Threads == {"scheduler", "bot"}

SignWallets == {"w1", "w2"}
SignChains == {"ethereum", "1"}
SignOps == {"approve", "send"}

\* The transactions of an address that the chain's latest block counts.
MaxTxCount == 2

\* web3.eth.get_transaction_count(address) of get_nonce
get_nonce(chain_id, address) == tx_count[<<address, chain_id>>]

NonceInit ==
    /\ sign_pc = [t \in Threads |-> "idle"]
    /\ sign_op = [t \in Threads |-> None]
    /\ tx_count = [k \in SignWallets \X (SignChains \cap RPC_URLS) |-> 0]
    /\ broadcast = {}
    /\ RunIdle /\ SchedIdle /\ SelIdle /\ SvcIdle /\ TimeIdle /\ NotifyIdle /\ WalletIdle

NonceOthersUnchanged == UNCHANGED <<runVars, schedVars, selVars, svcVars, timeVars, notifyVars,
                 walletVars>>

SignReturns(t, ret) ==
    /\ sign_pc' = [sign_pc EXCEPT ![t] = "idle"]
    /\ sign_op' = [sign_op EXCEPT ![t] = None]

\* WalletService.approve_token_for_bridge / send_transaction: the private key
\* is looked up, then TransactionManager checks the chain.
SignBegin(t, op, wallet, chain_id) ==
    /\ sign_pc[t] = "idle"
    /\ \E has_key \in BOOLEAN :
          IF ~has_key \/ chain_id \notin RPC_URLS
          THEN SignReturns(t, None)
          ELSE /\ sign_pc' = [sign_pc EXCEPT ![t] = "get_nonce"]
               /\ sign_op' = [sign_op EXCEPT ![t] =
                     [tag |-> "op", op |-> op, wallet |-> wallet,
                      chain_id |-> chain_id, nonce |-> 0, signed |-> FALSE]]
    /\ UNCHANGED <<tx_count, broadcast>>
    /\ NonceOthersUnchanged

\* nonce = self.get_nonce(chain_id, wallet_address)
SignGetNonce(t) ==
    /\ sign_pc[t] = "get_nonce"
    /\ \/ /\ sign_op' = [sign_op EXCEPT ![t].nonce =
                            get_nonce(sign_op[t].chain_id, sign_op[t].wallet)]
          /\ sign_pc' = [sign_pc EXCEPT ![t] = "get_gas_price"]
       \/ SignReturns(t, None)
    /\ UNCHANGED <<tx_count, broadcast>>
    /\ NonceOthersUnchanged

\* gas_price = self.get_gas_price(chain_id)
SignGetGasPrice(t) ==
    /\ sign_pc[t] = "get_gas_price"
    /\ \/ /\ sign_pc' = [sign_pc EXCEPT ![t] = "sign"]
          /\ UNCHANGED sign_op
       \/ SignReturns(t, None)
    /\ UNCHANGED <<tx_count, broadcast>>
    /\ NonceOthersUnchanged

\* signed_tx = web3.eth.account.sign_transaction(tx, private_key)
SignTransaction(t) ==
    /\ sign_pc[t] = "sign"
    /\ sign_op' = [sign_op EXCEPT ![t].signed = TRUE]
    /\ sign_pc' = [sign_pc EXCEPT ![t] = "send_raw"]
    /\ UNCHANGED <<tx_count, broadcast>>
    /\ NonceOthersUnchanged

\* tx_hash = web3.eth.send_raw_transaction(signed_tx.rawTransaction): the node
\* takes the transaction into its pool, or refuses it and the port returns
\* None; a nonce below the count of the address is always refused.
SendRawTransaction(t) ==
    /\ sign_pc[t] = "send_raw"
    /\ \/ /\ sign_op[t].nonce >= get_nonce(sign_op[t].chain_id, sign_op[t].wallet)
          /\ broadcast' = broadcast \cup
                 {[wallet |-> sign_op[t].wallet, chain_id |-> sign_op[t].chain_id,
                   nonce |-> sign_op[t].nonce]}
       \/ UNCHANGED broadcast
    /\ SignReturns(t, None)
    /\ UNCHANGED tx_count
    /\ NonceOthersUnchanged

\* The chain includes the transaction of the pool whose nonce is the next one
\* of its address.
Mine(wallet, chain_id) ==
    /\ get_nonce(chain_id, wallet) < MaxTxCount
    /\ \E b \in broadcast :
          /\ b.wallet = wallet /\ b.chain_id = chain_id
          /\ b.nonce = get_nonce(chain_id, wallet)
          /\ broadcast' = broadcast \ {b}
    /\ tx_count' = [tx_count EXCEPT ![<<wallet, chain_id>>] = @ + 1]
    /\ UNCHANGED <<sign_pc, sign_op>>
    /\ NonceOthersUnchanged

NonceNext ==
    \/ \E t \in Threads, op \in SignOps, wallet \in SignWallets,
          chain_id \in SignChains : SignBegin(t, op, wallet, chain_id)
    \/ \E t \in Threads : SignGetNonce(t)
    \/ \E t \in Threads : SignGetGasPrice(t)
    \/ \E t \in Threads : SignTransaction(t)
    \/ \E t \in Threads : SendRawTransaction(t)
    \/ \E wallet \in SignWallets, chain_id \in SignChains \cap RPC_URLS :
          Mine(wallet, chain_id)

SpecNonce == NonceInit /\ [][NonceNext]_vars

\* C5: for one wallet and one chain, two signing operations that are in
\* progress at the same time never hold transactions signed with the same
\* nonce.
C5_NoSharedNonce ==
    \A t1, t2 \in Threads :
        (/\ t1 # t2
         /\ sign_pc[t1] = "send_raw" /\ sign_pc[t2] = "send_raw"
         /\ sign_op[t1].wallet = sign_op[t2].wallet
         /\ sign_op[t1].chain_id = sign_op[t2].chain_id)
        => sign_op[t1].nonce # sign_op[t2].nonce

-----------------------------------------------------------------------------
(* SpecSched: schedule_random_transactions on the bot thread and            *)
(* run_scheduler on the scheduler thread                                    *)

SchedWallets == {"w1", "w2"}

\* Job objects created and instants of the clock in a behaviour.
MaxJobs == 3
MaxClock == 2

\* every().day in instants of the clock; the generated times lie within it.
SchedDay == 2

\* The times generate_random_transaction_times may return at an instant of
\* the clock, as the next runs at(...) computes from them.
TransactionTimes(num_tx) ==
    {sort_times(draws) :
        draws \in [1..num_tx -> (clock + 1)..(clock + SchedDay)]}

\* Job.__lt__ compares next_run; sorted() keeps the order of schedule.jobs
\* among equal next runs.
job_before(a, b) ==
    a.next_run < b.next_run \/ (a.next_run = b.next_run /\ a.id < b.id)

\* job.should_run: datetime.datetime.now() >= self.next_run
should_run(job) == clock >= job.next_run

SchedInit ==
    /\ jobs = <<>>
    /\ scheduled_transactions = [w \in {} |-> <<>>]
    /\ runnable = <<>>
    /\ current = {}
    /\ ended = None
    /\ fired = {}
    /\ superseded = {}
    /\ nextJob = 1
    /\ requested = [w \in {} |-> 0]
    /\ clock = 0
    /\ loop = "running"
    /\ RunIdle /\ NonceIdle /\ SelIdle /\ SvcIdle /\ TimeIdle /\ NotifyIdle /\ WalletIdle

SchedOthersUnchanged == UNCHANGED <<runVars, nonceVars, selVars, svcVars, timeVars, notifyVars,
                 walletVars>>

\* A plausible slip: the jobs of every wallet are cancelled (schedule.clear()).
previous_jobs_of_all(wallet_address) ==
    UNION {Range(scheduled_transactions[w]) : w \in DOMAIN scheduled_transactions}

\* The jobs of the wallet that an earlier call planned.
previous_jobs(wallet_address) ==
    IF wallet_address \in DOMAIN scheduled_transactions
    THEN Range(scheduled_transactions[wallet_address]) ELSE {}

\* schedule_random_transactions(wallet_address, num_transactions): the jobs
\* of the wallet are cancelled and one job a generated time is created.
ScheduleRandomTransactions(wallet_address, num_transactions) ==
    LET num_tx == num_tx_of(num_transactions)
        cancelled == previous_jobs(wallet_address)
        kept == SelectSeq(jobs, LAMBDA j : j.id \notin cancelled)
    IN  /\ nextJob + num_tx - 1 <= MaxJobs
        /\ \E transaction_times \in TransactionTimes(num_tx) :
              LET new_jobs == [i \in 1..num_tx |->
                                 [id |-> nextJob + i - 1,
                                  wallet_addr |-> wallet_address,
                                  tx_index |-> i, num_tx |-> num_tx,
                                  next_run |-> transaction_times[i]]]
              IN  /\ jobs' = kept \o new_jobs
                  /\ scheduled_transactions' =
                        [w \in DOMAIN scheduled_transactions \cup {wallet_address} |->
                            IF w = wallet_address
                            THEN [i \in 1..num_tx |-> new_jobs[i].id]
                            ELSE scheduled_transactions[w]]
        /\ superseded' = superseded \cup cancelled
        /\ nextJob' = nextJob + num_tx
        /\ requested' = [w \in DOMAIN requested \cup {wallet_address} |->
                            IF w = wallet_address THEN num_tx ELSE requested[w]]
        /\ UNCHANGED <<runnable, current, ended, fired, clock, loop>>
        /\ SchedOthersUnchanged

\* schedule.run_pending: sorted(job for job in self.jobs if job.should_run)
RunPending ==
    /\ loop = "running"
    /\ runnable = <<>>
    /\ current = {}
    /\ \E i \in DOMAIN jobs : should_run(jobs[i])
    /\ runnable' = SortSeq(SelectSeq(jobs, should_run), job_before)
    /\ UNCHANGED <<jobs, scheduled_transactions, current, ended, fired,
                   superseded, nextJob, requested, clock, loop>>
    /\ SchedOthersUnchanged

\* The record of the firing of a job that starts.
firing(job) ==
    [job |-> job.id, wallet_addr |-> job.wallet_addr,
     stale |-> job.id \in superseded]

\* A plausible slip: each job is started in a thread of its own, whether or
\* not another one is still running.
JobStartsThreaded ==
    /\ loop = "running"
    /\ runnable # <<>>
    /\ current' = current \cup {Head(runnable)}
    /\ runnable' = Tail(runnable)
    /\ fired' = fired \cup {firing(Head(runnable))}
    /\ UNCHANGED <<jobs, scheduled_transactions, ended, superseded, nextJob,
                   requested, clock, loop>>
    /\ SchedOthersUnchanged

\* run_pending's for loop is at the next job: the job before it has returned.
can_start == loop = "running" /\ current = {} /\ runnable # <<>>

\* _run_job(job) -> job.run() -> execute_transaction starts for the next job
\* of the sorted list.
JobStarts ==
    /\ can_start
    /\ current' = current \cup {Head(runnable)}
    /\ runnable' = Tail(runnable)
    /\ fired' = fired \cup {firing(Head(runnable))}
    /\ UNCHANGED <<jobs, scheduled_transactions, ended, superseded, nextJob,
                   requested, clock, loop>>
    /\ SchedOthersUnchanged

\* What execute_random_bridge of the aggregator does inside its try block,
\* and what a registered notification callback does when it is called.
ExecuteOutcomes == {"result", "none", "raises"}
CallbackOutcomes == {"returns", "raises"}

\* A plausible slip: the exception of a callback leaves notify.
notify_reraises(callback) == callback = "raises"

\* notify: try: callback(message, transaction_data) except Exception: the
\* exception is logged and goes no further.
notify_raises(callback) == FALSE

\* execute_random_bridge: except Exception as e: ... return None
execute_returns(execute) == IF execute = "result" THEN "result" ELSE "none"

\* How a firing ended: with a result, without one, or with an exception that
\* was caught on the way.
firing_outcome(execute, callback) ==
    IF execute = "raises" \/ callback = "raises" THEN "raised"
    ELSE IF execute_returns(execute) = "result" THEN "ok" ELSE "failed"

\* A plausible slip: only a success is reported.
execute_transaction_reports_success(job, execute) ==
    <<[op |-> "execute_random_bridge", wallet_addr |-> job.wallet_addr]>>
    \o (IF execute_returns(execute) = "result"
        THEN <<[op |-> "notify", kind |-> "success",
                tx_index |-> job.tx_index, num_tx |-> job.num_tx]>>
        ELSE <<>>)

\* execute_transaction(wallet_addr, tx_index): the calls it makes, in order:
\* result = self.execute_random_bridge(wallet_addr), then self.notify with
\* the message of a success if result else with the message of a failure.
execute_transaction(job, execute) ==
    <<[op |-> "execute_random_bridge", wallet_addr |-> job.wallet_addr],
      [op |-> "notify",
       kind |-> IF execute_returns(execute) = "result"
                THEN "success" ELSE "failure",
       tx_index |-> job.tx_index, num_tx |-> job.num_tx]>>

\* A plausible slip: the next run is planned a day after the firing (a job
\* made with every().day and no at(...)).
schedule_next_run_from_now(job) == clock + SchedDay

\* job.run() -> _schedule_next_run of a job made with every().day.at(time):
\* the same time of day, one day after the run that was due.
schedule_next_run(job) == job.next_run + SchedDay

\* execute_transaction returns or raises; job.run() plans the next run a day
\* after the job's time; an exception leaves run_pending and the while loop
\* of run_scheduler.
JobEnds ==
    /\ loop = "running"
    /\ \E job \in current :
          /\ current' = current \ {job}
          /\ \E execute \in ExecuteOutcomes, callback \in CallbackOutcomes :
                /\ ended' = [job |-> job.id,
                             wallet_addr |-> job.wallet_addr,
                             returned |-> execute_returns(execute),
                             did |-> execute_transaction(job, execute),
                             outcome |-> firing_outcome(execute, callback)]
                /\ IF notify_raises(callback)
                   THEN /\ loop' = "stopped"
                        /\ UNCHANGED jobs
                   ELSE /\ loop' = loop
                        /\ jobs' = [i \in DOMAIN jobs |->
                                      IF jobs[i].id = job.id
                                      THEN [jobs[i] EXCEPT !.next_run = schedule_next_run(jobs[i])]
                                      ELSE jobs[i]]
    /\ UNCHANGED <<scheduled_transactions, runnable, fired, superseded,
                   nextJob, requested, clock>>
    /\ SchedOthersUnchanged

\* Time passes.
ClockAdvances ==
    /\ clock < MaxClock
    /\ clock' = clock + 1
    /\ UNCHANGED <<jobs, scheduled_transactions, runnable, current, ended,
                   fired, superseded, nextJob, requested, loop>>
    /\ SchedOthersUnchanged

SchedNext ==
    \/ \E wallet_address \in SchedWallets, num_transactions \in NumArguments :
          ScheduleRandomTransactions(wallet_address, num_transactions)
    \/ RunPending
    \/ JobStarts
    \/ JobEnds
    \/ ClockAdvances

SpecSched == SchedInit /\ [][SchedNext]_vars

\* The jobs of the wallet in schedule.jobs.
active_entries(wallet_address) ==
    {i \in DOMAIN jobs : jobs[i].wallet_addr = wallet_address}

\* After a schedule call the wallet has exactly num_tx active entries.
ExactlyRequestedEntries ==
    \A w \in DOMAIN requested :
        /\ Cardinality(active_entries(w)) = requested[w]
        /\ Len(scheduled_transactions[w]) = requested[w]

\* C6: after scheduleWallet(wallet, N2) the wallet has exactly N2 active
\* entries, and no entry of the earlier schedule fires after the call.
C6_RescheduleReplaces ==
    /\ ExactlyRequestedEntries
    /\ \A f \in fired : ~f.stale

C15_SameWalletNeverOverlaps ==
    \A a, b \in current : a.wallet_addr = b.wallet_addr => a = b

\* A firing of a wallet is in progress while another job of the same wallet
\* is due and waits in the sorted list of run_pending.
C15_Witness ==
    /\ runnable # <<>>
    /\ \E job \in current : job.wallet_addr = Head(runnable).wallet_addr

\* C16: firings of two different wallets that are due at the same time can
\* both be in progress: while the firing of one wallet runs, the due job of
\* the other wallet can start without waiting for it to return.
C16_DifferentWalletsRunTogether ==
    (/\ loop = "running"
     /\ runnable # <<>>
     /\ \E job \in current : job.wallet_addr # Head(runnable).wallet_addr)
    => can_start

\* The calls of one kind in the list of what a firing did.
did_calls(op) == SelectSeq(ended.did, LAMBDA call : call.op = op)

\* C22: a firing calls execute_random_bridge for its wallet exactly once and
\* then notifies exactly once: a success when a result was returned, a
\* failure otherwise; the tag i/N gives the position of the entry in the
\* sorted schedule of its wallet and the number of entries scheduled.
C22_FiringExecutesOnceNotifiesOnce ==
    ended # None =>
        /\ Len(ended.did) = 2
        /\ ended.did[1] = [op |-> "execute_random_bridge",
                           wallet_addr |-> ended.wallet_addr]
        /\ Len(did_calls("notify")) = 1
        /\ ended.did[2].op = "notify"
        /\ ended.did[2].kind = "success" <=> ended.returned = "result"
        /\ ended.job \notin superseded =>
              LET entries == scheduled_transactions[ended.wallet_addr] IN
              /\ ended.did[2].tx_index \in DOMAIN entries
              /\ entries[ended.did[2].tx_index] = ended.job
              /\ ended.did[2].num_tx = Len(entries)
              /\ ended.did[2].num_tx = requested[ended.wallet_addr]

\* The second entry of a schedule of two fired and failed.
C22_Witness ==
    /\ ended # None
    /\ ended.job \notin superseded
    /\ ended.returned = "none"
    /\ ended.did[2].tx_index = 2
    /\ ended.did[2].num_tx = 2

wallet_entries(js, wallet_address) ==
    {js[i] : i \in {n \in DOMAIN js : js[n].wallet_addr = wallet_address}}

\* C35: schedule_random_transactions(A, n) changes the schedule of wallet A
\* only: the active entries of every other wallet, their times and their
\* tags, are the same before and after the call.
C35_OtherWalletsUntouched ==
    [][\A wallet_address \in SchedWallets, num_transactions \in NumArguments :
          ScheduleRandomTransactions(wallet_address, num_transactions) =>
              \A other \in SchedWallets \ {wallet_address} :
                  /\ wallet_entries(jobs', other) = wallet_entries(jobs, other)
                  /\ other \in DOMAIN scheduled_transactions =>
                        scheduled_transactions'[other] = scheduled_transactions[other]
      ]_vars

\* A wallet was scheduled while the other wallet had entries, which are
\* still there.
C35_Witness ==
    \E i, j \in DOMAIN jobs :
        /\ jobs[i].wallet_addr # jobs[j].wallet_addr
        /\ jobs[i].id < jobs[j].id
        /\ jobs[i].id \notin superseded

\* The ids of the jobs in schedule.jobs, and of the jobs in the per-wallet
\* lists of scheduled_transactions.
scheduler_jobs == {jobs[i].id : i \in DOMAIN jobs}
listed_jobs ==
    UNION {Range(scheduled_transactions[w]) : w \in DOMAIN scheduled_transactions}

\* C37: with schedule_random_transactions called from the bot thread while
\* run_pending is in the middle of a tick, a job cancelled by the call is
\* never started after the call has returned, and the jobs of schedule.jobs
\* are the jobs of the per-wallet lists.
C37_CancelledNeverExecuted ==
    /\ \A f \in fired : ~f.stale
    /\ scheduler_jobs = listed_jobs

-----------------------------------------------------------------------------
(* SpecNotify: BridgeService.notify and the registered callbacks *)

MaxCallbacks == 3

Callbacks == {"telegram", "log"}
Messages == {"message"}
TransactionDatas == {None, [tag |-> "transaction_data"]}

NotifyInit ==
    /\ NotifyIdle
    /\ RunIdle /\ NonceIdle /\ SchedIdle /\ SelIdle /\ SvcIdle /\ TimeIdle
    /\ WalletIdle

NotifyOthersUnchanged ==
    UNCHANGED <<runVars, nonceVars, schedVars, selVars, svcVars, timeVars,
                walletVars>>

\* register_notification_callback(callback), called while the program starts,
\* before anything is notified
RegisterNotificationCallback(callback) ==
    /\ notify_pc = "idle"
    /\ Len(notification_callbacks) < MaxCallbacks
    /\ notification_callbacks' = Append(notification_callbacks, callback)
    /\ UNCHANGED <<notify_pc, notify_args, notify_i, delivered, callbacks, bot_pc>>
    /\ NotifyOthersUnchanged

\* TelegramInterface.start: the callback of the bot is registered with the
\* notification service, and send_notification of the notification service
\* with the bridge service; the thread of TelegramBot.start is started.
TelegramInterfaceStart ==
    /\ notify_pc = "idle"
    /\ callbacks = <<>>
    /\ Len(notification_callbacks) < MaxCallbacks
    /\ callbacks' = Append(callbacks, "notification_callback")
    /\ notification_callbacks' = Append(notification_callbacks, "send_notification")
    /\ UNCHANGED <<notify_pc, notify_args, notify_i, delivered, bot_pc>>
    /\ NotifyOthersUnchanged

\* TelegramBot.start: bridge_service.register_notification_callback(
\* self.notification_callback)
bot_registers(registered) == Append(registered, "notification_callback")

\* TelegramBot.start in its thread: without a token it returns at once;
\* otherwise it adds its handlers, registers its notification callback with
\* the bridge service and polls.
TelegramBotStart(token) ==
    /\ notify_pc = "idle"
    /\ callbacks # <<>>
    /\ bot_pc = "created"
    /\ IF token
       THEN /\ Len(notification_callbacks) < MaxCallbacks
            /\ notification_callbacks' = bot_registers(notification_callbacks)
            /\ bot_pc' = "polling"
       ELSE /\ bot_pc' = "returned"
            /\ UNCHANGED notification_callbacks
    /\ UNCHANGED <<notify_pc, notify_args, notify_i, delivered, callbacks>>
    /\ NotifyOthersUnchanged

\* The callbacks a registered callback calls in turn: send_notification
\* calls every callback of the notification service, each in a try block.
calls_made_by(callback) ==
    IF callback = "send_notification" THEN callbacks ELSE <<>>

\* send_notification catches what its callbacks raise.
can_raise(callback) == callback # "send_notification"

\* notify(message, transaction_data) is called: the for loop starts.
Notify(message, transaction_data) ==
    /\ notify_pc \in {"idle", "returned"}
    /\ notify_pc' = "for"
    /\ notify_args' = [message |-> message, transaction_data |-> transaction_data]
    /\ notify_i' = 1
    /\ delivered' = <<>>
    /\ UNCHANGED <<notification_callbacks, callbacks, bot_pc>>
    /\ NotifyOthersUnchanged

\* A plausible slip: the loop is left at the first callback that raises.
NotifyCallbackUntilFailure ==
    /\ notify_pc = "for"
    /\ notify_i <= Len(notification_callbacks)
    /\ \E outcome \in CallbackOutcomes :
          /\ delivered' = Append(delivered,
                [callback |-> notification_callbacks[notify_i],
                 message |-> notify_args.message,
                 transaction_data |-> notify_args.transaction_data,
                 calls |-> calls_made_by(notification_callbacks[notify_i]),
                 outcome |-> outcome])
          /\ IF outcome = "raises"
             THEN notify_pc' = "returned" /\ UNCHANGED notify_i
             ELSE notify_pc' = notify_pc /\ notify_i' = notify_i + 1
    /\ UNCHANGED <<notification_callbacks, notify_args, callbacks, bot_pc>>
    /\ NotifyOthersUnchanged

\* One iteration: try: callback(message, transaction_data), except Exception:
\* logger.error(...)
NotifyCallback ==
    /\ notify_pc = "for"
    /\ notify_i <= Len(notification_callbacks)
    /\ \E outcome \in CallbackOutcomes :
          /\ delivered' = Append(delivered,
                [callback |-> notification_callbacks[notify_i],
                 message |-> notify_args.message,
                 transaction_data |-> notify_args.transaction_data,
                 calls |-> calls_made_by(notification_callbacks[notify_i]),
                 outcome |-> outcome])
          /\ outcome = "raises" => can_raise(notification_callbacks[notify_i])
          /\ IF notify_raises(outcome)
             THEN notify_pc' = "raised" /\ UNCHANGED notify_i
             ELSE notify_pc' = notify_pc /\ notify_i' = notify_i + 1
    /\ UNCHANGED <<notification_callbacks, notify_args, callbacks, bot_pc>>
    /\ NotifyOthersUnchanged

\* The for loop is over: notify returns to the operation that called it.
NotifyReturns ==
    /\ notify_pc = "for"
    /\ notify_i > Len(notification_callbacks)
    /\ notify_pc' = "returned"
    /\ UNCHANGED <<notification_callbacks, notify_args, notify_i, delivered,
                   callbacks, bot_pc>>
    /\ NotifyOthersUnchanged

NotifyNext ==
    \/ \E callback \in Callbacks : RegisterNotificationCallback(callback)
    \/ TelegramInterfaceStart
    \/ \E token \in BOOLEAN : TelegramBotStart(token)
    \/ \E message \in Messages, transaction_data \in TransactionDatas :
          Notify(message, transaction_data)
    \/ NotifyCallback
    \/ NotifyReturns

SpecNotify == NotifyInit /\ [][NotifyNext]_vars

\* C17: notify calls the registered callbacks one time each, in the order of
\* their registration, with the message and the data it was given; a callback
\* that raises is not called again, the callbacks after it are still called,
\* and notify never raises to its caller.
C17_EveryCallbackOnceInOrder ==
    /\ notify_pc # "raised"
    /\ notify_pc = "for" => Len(delivered) = notify_i - 1
    /\ notify_pc = "returned" => Len(delivered) = Len(notification_callbacks)
    /\ \A k \in DOMAIN delivered :
          /\ k <= Len(notification_callbacks)
          /\ delivered[k].callback = notification_callbacks[k]
          /\ delivered[k].message = notify_args.message
          /\ delivered[k].transaction_data = notify_args.transaction_data

\* notify has returned after its first callback raised and a different
\* callback was called after it.
C17_Witness ==
    /\ notify_pc = "returned"
    /\ Len(delivered) >= 2
    /\ delivered[1].outcome = "raises"
    /\ delivered[2].callback # delivered[1].callback

\* How many times a notify that has returned reached the callback: called
\* by notify itself or by a callback that notify called.
times_reached(callback) ==
    Len(SelectSeq(delivered, LAMBDA d : d.callback = callback))
    + Len(SelectSeq(delivered,
                    LAMBDA d : \E k \in DOMAIN d.calls : d.calls[k] = callback))

\* C38: once TelegramInterface.start and TelegramBot.start have run, a
\* notification of the bridge service reaches the notification callback of
\* the Telegram bot exactly once.
C38_NotificationReachesBotOnce ==
    (bot_pc = "polling" /\ notify_pc = "returned") =>
        times_reached("notification_callback") = 1

-----------------------------------------------------------------------------
(* SpecWallets: the wallet store (WalletManager behind WalletService) *)

MaxStoreCalls == 3

Names == {"main", "spare"}
Addresses == {"addr1", "addr2", "addr3"}
StoreChains == {"ethereum"}
StoreTokens == {"ETH"}
Balances == {0, 5}

\* The private_key arguments: hexadecimal text with or without the prefix
\* 0x; "bad" is text that is not a key.
KeyArguments ==
    {[prefix |-> TRUE, hex |-> "k1"], [prefix |-> FALSE, hex |-> "k1"],
     [prefix |-> TRUE, hex |-> "k2"], [prefix |-> FALSE, hex |-> "bad"]}

\* if not private_key.startswith('0x'): private_key = '0x' + private_key
normalised(private_key_arg) == [private_key_arg EXCEPT !.prefix = TRUE]

\* Account.from_key(private_key) raises on text that is not a key.
is_key(private_key_arg) == private_key_arg.hex # "bad"

\* account.address
address_of(private_key_arg) ==
    CASE private_key_arg.hex = "k1" -> "addr1"
      [] private_key_arg.hex = "k2" -> "addr2"

\* self.fernet.encrypt(private_key.encode()).decode()
encrypted(private_key_arg) == [tag |-> "encrypted", key |-> private_key_arg]

\* wallet_info of add_wallet
wallet_info(name, private_key_arg) ==
    [name |-> name,
     address |-> address_of(private_key_arg),
     encrypted_key |-> encrypted(normalised(private_key_arg)),
     chains |-> <<>>]

\* self.wallets[address] = value
wallets_with(ws, address, value) ==
    [a \in DOMAIN ws \cup {address} |-> IF a = address THEN value ELSE ws[a]]

\* del self.wallets[address]
wallets_without(ws, address) == [a \in DOMAIN ws \ {address} |-> ws[a]]

\* The entry get_wallets and get_wallet build for a stored wallet.
wallet_entry(ws, address) ==
    [name |-> ws[address].name, address |-> address,
     chains |-> ws[address].chains]

\* get_wallets: the entries of the stored wallets (the order of the list is
\* left out).
get_wallets(ws) == {wallet_entry(ws, a) : a \in DOMAIN ws}

\* A plausible slip: the stored record itself is returned.
get_wallet_stored(ws, address) ==
    IF address \in DOMAIN ws THEN ws[address] ELSE None

\* get_wallet(address)
get_wallet(ws, address) ==
    IF address \in DOMAIN ws THEN wallet_entry(ws, address) ELSE None

\* A plausible slip: remove_wallet reports a removal whatever the address.
remove_wallet_returns_true(ws, address) == TRUE

\* remove_wallet: if address in self.wallets ... return True else False
remove_wallet_returns(ws, address) == address \in DOMAIN ws

\* self.wallets[address]['chains'][chain_id]['tokens'][token_symbol] = balance
chains_with(chains, chain_id, token_symbol, balance) ==
    LET tokens == IF chain_id \in DOMAIN chains
                  THEN chains[chain_id].tokens ELSE <<>>
        updated == [t \in DOMAIN tokens \cup {token_symbol} |->
                       IF t = token_symbol THEN balance ELSE tokens[t]]
    IN  [c \in DOMAIN chains \cup {chain_id} |->
            IF c = chain_id THEN [tokens |-> updated] ELSE chains[c]]

WalletsInit ==
    /\ WalletIdle
    /\ RunIdle /\ NonceIdle /\ SchedIdle /\ SelIdle /\ SvcIdle /\ TimeIdle
    /\ NotifyIdle

WalletsOthersUnchanged ==
    UNCHANGED <<runVars, nonceVars, schedVars, selVars, svcVars, timeVars,
                notifyVars>>

StoreCalled(call) ==
    /\ Len(store_calls) < MaxStoreCalls
    /\ store_calls' = Append(store_calls, call)

\* add_wallet(name, private_key)
AddWallet(name, private_key_arg) ==
    /\ IF is_key(private_key_arg)
       THEN /\ wallets' = wallets_with(wallets, address_of(private_key_arg),
                                       wallet_info(name, private_key_arg))
            /\ StoreCalled([op |-> "add_wallet", name |-> name,
                            ret |-> [tag |-> "wallet", name |-> name,
                                     address |-> address_of(private_key_arg)]])
       ELSE /\ UNCHANGED wallets
            /\ StoreCalled([op |-> "add_wallet", name |-> name,
                            ret |-> [tag |-> "ValueError"]])
    /\ WalletsOthersUnchanged

\* remove_wallet(address)
RemoveWallet(address) ==
    /\ wallets' = IF address \in DOMAIN wallets
                  THEN wallets_without(wallets, address) ELSE wallets
    /\ StoreCalled([op |-> "remove_wallet", address |-> address,
                    ret |-> remove_wallet_returns(wallets, address)])
    /\ WalletsOthersUnchanged

\* get_wallets()
GetWallets ==
    /\ StoreCalled([op |-> "get_wallets", ret |-> get_wallets(wallets)])
    /\ UNCHANGED wallets
    /\ WalletsOthersUnchanged

\* get_wallet(address)
GetWallet(address) ==
    /\ StoreCalled([op |-> "get_wallet", address |-> address,
                    ret |-> get_wallet(wallets, address)])
    /\ UNCHANGED wallets
    /\ WalletsOthersUnchanged

\* update_wallet_info(address, chain_id, token_symbol, balance)
UpdateWalletInfo(address, chain_id, token_symbol, balance) ==
    /\ wallets' =
          IF address \in DOMAIN wallets
          THEN wallets_with(wallets, address,
                   [wallets[address] EXCEPT
                       !.chains = chains_with(@, chain_id, token_symbol, balance)])
          ELSE wallets
    /\ StoreCalled([op |-> "update_wallet_info", address |-> address,
                    ret |-> address \in DOMAIN wallets])
    /\ WalletsOthersUnchanged

WalletsNext ==
    \/ \E name \in Names, private_key_arg \in KeyArguments :
          AddWallet(name, private_key_arg)
    \/ \E address \in Addresses : RemoveWallet(address)
    \/ GetWallets
    \/ \E address \in Addresses : GetWallet(address)
    \/ \E address \in Addresses, chain_id \in StoreChains,
          token_symbol \in StoreTokens, balance \in Balances :
          UpdateWalletInfo(address, chain_id, token_symbol, balance)

SpecWallets == WalletsInit /\ [][WalletsNext]_vars

\* The call added a wallet.
added(call) == call.op = "add_wallet" /\ call.ret.tag = "wallet"

\* Whether the address is in the store after the first n calls, told from
\* the calls alone: some add_wallet returned it and no remove_wallet of it
\* came later.
present_after(n, address) ==
    \E i \in 1..n :
        /\ added(store_calls[i])
        /\ store_calls[i].ret.address = address
        /\ \A j \in (i + 1)..n :
               ~(store_calls[j].op = "remove_wallet"
                   /\ store_calls[j].address = address)

\* What a get_wallets call made now would return, for the last call, or what
\* the get_wallets call that came next returned.
listed_after(i) ==
    IF i = Len(store_calls) THEN get_wallets(wallets)
    ELSE IF store_calls[i + 1].op = "get_wallets" THEN store_calls[i + 1].ret
    ELSE {}

\* C23: after add_wallet(name, key) succeeds, get_wallets has an entry with
\* the returned address and that name; remove_wallet(address) returns True
\* exactly when the address was present; after it get_wallet(address)
\* returns nothing and a second remove_wallet(address) returns False.
C23_AddListsRemoveForgets ==
    \A i \in DOMAIN store_calls :
        LET call == store_calls[i]
            last == i = Len(store_calls)
        IN  /\ (added(call) /\ (last \/ store_calls[i + 1].op = "get_wallets")) =>
                  \E entry \in listed_after(i) :
                      /\ entry.address = call.ret.address
                      /\ entry.name = call.name
            /\ call.op = "remove_wallet" =>
                  /\ call.ret = present_after(i - 1, call.address)
                  /\ last => get_wallet(wallets, call.address) = None
                  /\ (~last /\ store_calls[i + 1].op \in {"get_wallet", "remove_wallet"}
                        /\ store_calls[i + 1].address = call.address) =>
                        store_calls[i + 1].ret
                          = (IF store_calls[i + 1].op = "get_wallet"
                             THEN None ELSE FALSE)

\* A wallet was added, removed with the answer True, and removed again.
C23_Witness ==
    /\ Len(store_calls) = 3
    /\ added(store_calls[1])
    /\ store_calls[2].op = "remove_wallet"
    /\ store_calls[2].ret
    /\ store_calls[3].op = "remove_wallet"
    /\ store_calls[3].address = store_calls[2].address

\* Per-chain balance information and nothing else.
balance_information(chains) ==
    \A c \in DOMAIN chains :
        /\ c \in StoreChains
        /\ DOMAIN chains[c] = {"tokens"}
        /\ \A t \in DOMAIN chains[c].tokens :
               t \in StoreTokens /\ chains[c].tokens[t] \in Balances

\* A returned wallet entry holds a name, an address and balances only.
entry_without_key(entry) ==
    /\ DOMAIN entry = {"name", "address", "chains"}
    /\ entry.name \in Names
    /\ entry.address \in Addresses
    /\ balance_information(entry.chains)

\* C25: whatever add_wallet, remove_wallet and update_wallet_info calls came
\* before, the entries get_wallets and get_wallet return hold the name, the
\* address and the per-chain balances, never the key nor its encrypted form.
C25_EntriesHoldNoKey ==
    \A i \in DOMAIN store_calls :
        /\ store_calls[i].op = "get_wallets" =>
              \A entry \in store_calls[i].ret : entry_without_key(entry)
        /\ (store_calls[i].op = "get_wallet" /\ store_calls[i].ret # None) =>
              entry_without_key(store_calls[i].ret)

\* get_wallet returned the entry of a wallet whose balance was recorded.
C25_Witness ==
    /\ Len(store_calls) = 3
    /\ added(store_calls[1])
    /\ store_calls[2].op = "update_wallet_info"
    /\ store_calls[2].ret
    /\ store_calls[3].op = "get_wallet"
    /\ store_calls[3].ret # None
    /\ store_calls[3].ret.chains # <<>>

====
